---- MODULE Spec2Model ----
(***************************************************************************)
(* A model of the quiz pipeline of AI-Quiz-Gen: batch generation with      *)
(* per-chunk failure isolation (app/quiz_generator.py), structural         *)
(* validation and answer scoring (app/utils.py).                           *)
(*                                                                         *)
(* Python values are represented as follows.                               *)
(*   - a dict is a function whose DOMAIN is its set of keys;               *)
(*   - a value whose Python type the code tests or depends on (the reply   *)
(*     document of json.loads, the value stored under a variant key) is    *)
(*     tagged: [ty |-> <Python type name>, v |-> <payload>];               *)
(*   - text the code slices, lower-cases or strips is a sequence of        *)
(*     one-character strings; text it only stores or compares is a string; *)
(*   - a call that may raise yields Return(value) or Raise(exception).     *)
(***************************************************************************)
EXTENDS Integers, Sequences, FiniteSets, TLC

VARIABLES
    arg_chunks,        \* generate_quiz_batch: the chunks argument
    arg_topics,        \* generate_quiz_batch: the topics argument (a list or None)
    arg_difficulties,  \* generate_quiz_batch: the difficulties argument (a list or None)
    topics,            \* generate_quiz_batch: local topics after defaulting
    difficulties,      \* generate_quiz_batch: local difficulties after defaulting
    quizzes,           \* generate_quiz_batch: the accumulating output list
    loop_i,            \* generate_quiz_batch: the loop index i (0-based)
    pc,                \* where the operation in progress stands
    calls,             \* the requests issued to the generation service, in order
    outcomes,          \* what the service did on each request, in order
    returned,          \* what generate_quiz_questions returned for each request
    val_quiz_data,     \* validate_quiz_structure: the quiz_data argument
    validation_result, \* validate_quiz_structure: its outcome
    answers,           \* calculate_quiz_score: the answers argument
    quiz_data,         \* calculate_quiz_score: the quiz_data argument
    score_result,      \* calculate_quiz_score: its outcome
    exp_quizzes,       \* the quizzes given to an export or to the summary
    fs,                \* the file system: directories made, files written
    exp_result,        \* the outcome of the export, summary or package call
    self_quizzes,      \* QuizGenerator: self.quizzes
    self_chunks,       \* QuizGenerator: self.chunks
    self_current_file, \* QuizGenerator: self.current_file
    app_result,        \* QuizGenerator: what the last method call returned
    n_calls            \* QuizGenerator: how many method calls were made

vars == <<arg_chunks, arg_topics, arg_difficulties, topics, difficulties, quizzes,
          loop_i, pc, calls, outcomes, returned,
          val_quiz_data, validation_result, answers, quiz_data, score_result,
          exp_quizzes, fs, exp_result,
          self_quizzes, self_chunks, self_current_file, app_result, n_calls>>

batch_vars == <<arg_chunks, arg_topics, arg_difficulties, topics, difficulties,
                quizzes, loop_i, calls, outcomes, returned>>

validate_vars == <<val_quiz_data, validation_result>>

score_vars == <<answers, quiz_data, score_result>>

export_vars == <<exp_quizzes, fs, exp_result>>

app_vars == <<self_quizzes, self_chunks, self_current_file, app_result, n_calls>>

(***************************************************************************)
(* Bounds of the model.                                                    *)
(***************************************************************************)
MaxChunks == 2     \* longest chunks list
MaxListLen == 2    \* longest topics / difficulties list
MaxExtra == 1      \* how far the longest chunk exceeds the preview length
MaxOptions == 5    \* longest MCQ options list
MaxStrLen == 2     \* longest submitted answer text
MaxPairs == 2      \* longest pairs list of a Matching variant
MaxRecords == 2    \* longest list given to an export or to the summary
MaxTick == 1       \* latest instant the clock shows

(***************************************************************************)
(* Python values.                                                          *)
(***************************************************************************)
None == [ty |-> "NoneType", v |-> <<>>]

Dict(d) == [ty |-> "dict", v |-> d]

List(s) == [ty |-> "list", v |-> s]

Str(s) == [ty |-> "str", v |-> s]

Return(x) == [raised |-> FALSE, value |-> x]

Raise(e) == [raised |-> TRUE, exc |-> e]

EmptyDict == [k \in {} |-> None]

\* d[k] = x on a dict: the key is added or its value replaced.
SetItem(d, k, x) == [key \in DOMAIN d \cup {k} |-> IF key = k THEN x ELSE d[key]]

\* d.get(k, default)
Get(d, k, default) == IF k \in DOMAIN d THEN d[k] ELSE default

\* bool(x) of a tagged value: empty containers and None are false.
Truthy(x) ==
    CASE x.ty = "NoneType" -> FALSE
      [] x.ty = "dict" -> DOMAIN x.v # {}
      [] x.ty = "list" -> Len(x.v) > 0
      [] x.ty = "str" -> x.v # ""
      [] OTHER -> TRUE

IsDict(x) == x.ty = "dict"

SeqsUpTo(S, n) == UNION {[1..m -> S] : m \in 0..n}

\* The dict holding the items of d1 and of d2 (their keys are disjoint here).
Merge(d1, d2) ==
    [k \in DOMAIN d1 \cup DOMAIN d2 |-> IF k \in DOMAIN d2 THEN d2[k] ELSE d1[k]]

\* The dicts that hold nothing or just key, with a value of values.
Optional(key, values) == {EmptyDict} \cup {(key :> x) : x \in values}

\* The number of elements of s equal to x.
Count(s, x) == Cardinality({j \in 1..Len(s) : s[j] = x})

(***************************************************************************)
(* Chunks.  A chunk is text: a sequence of characters.  Text(n) is a text  *)
(* of n characters whose content depends on n and on the position, so two  *)
(* chunks of the pool differ and a slice is recognisable.                  *)
(***************************************************************************)
PreviewLen == 200

Letters == <<"x", "y", "z">>

Text(n) == [k \in 1..n |-> Letters[((k + n) % 3) + 1]]

ChunkPool == {Text(1), Text(PreviewLen), Text(PreviewLen + MaxExtra)}

DEFAULT_TOPICS ==
    <<"GMP", "Device Classification", "Clinical Trials", "Licensing",
      "Quality Assurance", "General", "Documentation",
      "Risk Management", "Validation", "Audit">>

DEFAULT_DIFFICULTIES == <<"Beginner", "Intermediate", "Expert">>

Ellipsis == <<".", ".", ".">>

\* s[:n]
Prefix(s, n) == SubSeq(s, 1, IF Len(s) < n THEN Len(s) ELSE n)

\* Mutant: the conditional binds tighter than the concatenation,
\* chunk[:200] + ("..." if len(chunk) > 200 else chunk).
chunk_preview_precedence(chunk) ==
    Prefix(chunk, PreviewLen) \o (IF Len(chunk) > PreviewLen THEN Ellipsis ELSE chunk)

\* chunk[:200] + "..." if len(chunk) > 200 else chunk
chunk_preview(chunk) ==
    IF Len(chunk) > PreviewLen THEN Prefix(chunk, PreviewLen) \o Ellipsis ELSE chunk

(***************************************************************************)
(* The values of well-formed variants.                                     *)
(***************************************************************************)
Options(n) == [j \in 1..n |-> "option"]

Pair(term, definition) == Dict([term |-> term, definition |-> definition])

TrueText == <<"T", "r", "u", "e">>

FalseText == <<"F", "a", "l", "s", "e">>

FullMcq ==
    Dict([question |-> "Q", options |-> List(Options(4)),
          correct_answer |-> Str(<<"b">>), explanation |-> "E"])

FullTrueFalse ==
    Dict([question |-> "Q", correct_answer |-> Str(TrueText), explanation |-> "E"])

FullFillBlank ==
    Dict([question |-> "Q", correct_answer |-> Str(<<"b">>), explanation |-> "E"])

AnsweredMatching ==
    Dict([question |-> "Q", pairs |-> List(<<Pair("A", "1"), Pair("B", "2")>>),
          explanation |-> "E"])

(***************************************************************************)
(* The content-generation service.  A request either raises or yields a    *)
(* response whose message content is text or None.  The reply texts are a  *)
(* table of concrete replies, and json_loads gives for each what           *)
(* json.loads gives for it.                                                *)
(***************************************************************************)
VariantKeys == {"mcq", "true_false", "matching", "fill_blank"}

ReplyProse == "Here is your quiz: 1. What is GMP?"

ReplyNull == "null"

ReplyList == "[\"mcq\"]"

ReplyEmptyObject == "{}"

ReplyErrorObject == "{\"error\": \"no quiz\", \"mcq\": null}"

ReplyQuiz == "{\"topic\": \"Licensing\", \"difficulty\": \"Expert\", \"mcq\": {}}"

ReplyQuizIndexed == "{\"chunk_index\": 7, \"chunk_preview\": \"\", \"true_false\": []}"

ReplyFullQuiz ==
    "{\"topic\": \"GMP\", \"difficulty\": \"Expert\", "
    \o "\"mcq\": {\"question\": \"Q\", "
    \o "\"options\": [\"option\", \"option\", \"option\", \"option\"], "
    \o "\"correct_answer\": \"b\", \"explanation\": \"E\"}, "
    \o "\"true_false\": {\"question\": \"Q\", \"correct_answer\": \"True\", "
    \o "\"explanation\": \"E\"}, "
    \o "\"matching\": {\"question\": \"Q\", "
    \o "\"pairs\": [{\"term\": \"A\", \"definition\": \"1\"}, "
    \o "{\"term\": \"B\", \"definition\": \"2\"}], \"explanation\": \"E\"}, "
    \o "\"fill_blank\": {\"question\": \"Q\", \"correct_answer\": \"b\", "
    \o "\"explanation\": \"E\"}}"

ReplyNullVariant == "{\"topic\": \"GMP\", \"difficulty\": \"Expert\", \"mcq\": null}"

ReplyTexts == {ReplyProse, ReplyNull, ReplyList, ReplyEmptyObject,
               ReplyErrorObject, ReplyQuiz, ReplyQuizIndexed}

ServiceOutcomes ==
    {[kind |-> "raise", content |-> Str("Connection error.")],
     [kind |-> "response", content |-> None]}
    \cup {[kind |-> "response", content |-> Str(t)] : t \in ReplyTexts}

\* json.loads(s): a document, JSONDecodeError for text that is not JSON,
\* TypeError for an argument that is not text.
json_loads(s) ==
    IF s.ty # "str" THEN Raise("TypeError")
    ELSE CASE s.v = ReplyNull -> Return(None)
           [] s.v = ReplyList -> Return(List(<<"mcq">>))
           [] s.v = ReplyEmptyObject -> Return(Dict(EmptyDict))
           [] s.v = ReplyErrorObject ->
                Return(Dict([error |-> "no quiz", mcq |-> None]))
           [] s.v = ReplyQuiz ->
                Return(Dict([topic |-> "Licensing", difficulty |-> "Expert",
                             mcq |-> Dict(EmptyDict)]))
           [] s.v = ReplyQuizIndexed ->
                Return(Dict([chunk_index |-> 7, chunk_preview |-> <<>>,
                             true_false |-> List(<<>>)]))
           [] s.v = ReplyFullQuiz ->
                Return(Dict([topic |-> "GMP", difficulty |-> "Expert",
                             mcq |-> FullMcq, true_false |-> FullTrueFalse,
                             matching |-> AnsweredMatching,
                             fill_blank |-> FullFillBlank]))
           [] s.v = ReplyNullVariant ->
                Return(Dict([topic |-> "GMP", difficulty |-> "Expert", mcq |-> None]))
           [] OTHER -> Raise("JSONDecodeError")

\* openai.ChatCompletion.create(...) and response["choices"][0]["message"]["content"]
ChatCompletion_create(outcome) ==
    IF outcome.kind = "raise" THEN Raise(outcome.content.v) ELSE Return(outcome.content)

\* Mutant: the outer handler is missing, so what the inner handler does not
\* catch leaves the function.
generate_quiz_questions_no_outer_except(chunk, topic, difficulty, outcome) ==
    LET response == ChatCompletion_create(outcome)
    IN  IF response.raised THEN response
        ELSE LET quiz_content == response.value
                 parsed == json_loads(quiz_content)
             IN  IF ~parsed.raised THEN Return(parsed.value)
                 ELSE IF parsed.exc = "JSONDecodeError"
                      THEN Return(Dict([raw_content |-> quiz_content.v,
                                        error |-> "Failed to parse JSON"]))
                      ELSE parsed

\* The result of generate_quiz_questions when the service behaves as outcome.
generate_quiz_questions(chunk, topic, difficulty, outcome) ==
    LET response == ChatCompletion_create(outcome)
    IN  IF response.raised
        THEN Return(Dict([error |-> "Failed to generate quiz: " \o response.exc]))
        ELSE LET quiz_content == response.value
                 parsed == json_loads(quiz_content)
             IN  IF ~parsed.raised THEN Return(parsed.value)
                 ELSE IF parsed.exc = "JSONDecodeError"
                      THEN Return(Dict([raw_content |-> quiz_content.v,
                                        error |-> "Failed to parse JSON"]))
                      ELSE Return(Dict([error |-> "Failed to generate quiz: " \o parsed.exc]))


(***************************************************************************)
(* generate_quiz_batch.  One action enters the function (the defaults of   *)
(* topics and difficulties), one runs an iteration of the loop over the    *)
(* chunks (one request to the service, one entry appended), one returns.   *)
(* An exception out of generate_quiz_questions would leave the loop, for   *)
(* generate_quiz_batch has no handler: pc = "raised".                      *)
(***************************************************************************)
\* topics = ["General"] * len(chunks) when topics is None
default_list(arg, chunks, default) ==
    IF arg.ty = "NoneType" THEN [k \in 1..Len(chunks) |-> default] ELSE arg.v

\* Mutant: the bound is off by one, i < len(list) - 1.
item_or_default_off_by_one(list, i, default) ==
    IF i + 1 < Len(list) THEN list[i + 1] ELSE default

\* topics[i] if i < len(topics) else "General", for the 0-based index i
item_or_default(list, i, default) ==
    IF i < Len(list) THEN list[i + 1] ELSE default

\* The placeholder appended for a chunk whose generation failed.
failed_quiz(i, chunk, topic, difficulty) ==
    [chunk_index |-> i,
     chunk_preview |-> chunk_preview(chunk),
     topic |-> topic,
     difficulty |-> difficulty,
     error |-> "Quiz generation failed for this chunk"]

\* Mutant: chunk_index is set only when the document has none.
batch_entry_keeps_index(i, chunk, topic, difficulty, quiz) ==
    IF Truthy(quiz) /\ IsDict(quiz) /\ "error" \notin DOMAIN quiz.v
    THEN SetItem(SetItem(quiz.v, "chunk_index", Get(quiz.v, "chunk_index", i)),
                 "chunk_preview", chunk_preview(chunk))
    ELSE failed_quiz(i, chunk, topic, difficulty)

\* The entry appended for chunk i when generate_quiz_questions returned quiz.
batch_entry(i, chunk, topic, difficulty, quiz) ==
    IF Truthy(quiz) /\ IsDict(quiz) /\ "error" \notin DOMAIN quiz.v
    THEN SetItem(SetItem(quiz.v, "chunk_index", i), "chunk_preview", chunk_preview(chunk))
    ELSE failed_quiz(i, chunk, topic, difficulty)

generate_quiz_batch_enter ==
    /\ pc = "idle"
    /\ topics' = default_list(arg_topics, arg_chunks, "General")
    /\ difficulties' = default_list(arg_difficulties, arg_chunks, "Intermediate")
    /\ quizzes' = <<>>
    /\ loop_i' = 0
    /\ pc' = "loop"
    /\ UNCHANGED <<arg_chunks, arg_topics, arg_difficulties, calls, outcomes, returned>>
    /\ UNCHANGED <<validate_vars, score_vars, export_vars, app_vars>>

\* Mutant: a request that raised is issued a second time.
generate_quiz_batch_loop_retry ==
    /\ pc = "loop"
    /\ loop_i < Len(arg_chunks)
    /\ \E first \in ServiceOutcomes, second \in ServiceOutcomes :
        LET chunk == arg_chunks[loop_i + 1]
            topic == item_or_default(topics, loop_i, "General")
            difficulty == item_or_default(difficulties, loop_i, "Intermediate")
            request == [chunk |-> chunk, topic |-> topic, difficulty |-> difficulty]
            retried == first.kind = "raise"
            quiz == generate_quiz_questions(chunk, topic, difficulty,
                                            IF retried THEN second ELSE first)
        IN  /\ calls' = IF retried THEN Append(Append(calls, request), request)
                        ELSE Append(calls, request)
            /\ outcomes' = IF retried THEN Append(Append(outcomes, first), second)
                           ELSE Append(outcomes, first)
            /\ returned' = IF retried
                           THEN Append(Append(returned,
                                    generate_quiz_questions(chunk, topic, difficulty,
                                                            first).value),
                                    quiz.value)
                           ELSE Append(returned, quiz.value)
            /\ quizzes' = Append(quizzes,
                            batch_entry(loop_i, chunk, topic, difficulty, quiz.value))
            /\ loop_i' = loop_i + 1
            /\ pc' = pc
    /\ UNCHANGED <<arg_chunks, arg_topics, arg_difficulties, topics, difficulties>>
    /\ UNCHANGED <<validate_vars, score_vars, export_vars, app_vars>>

generate_quiz_batch_loop ==
    /\ pc = "loop"
    /\ loop_i < Len(arg_chunks)
    /\ \E outcome \in ServiceOutcomes :
        LET chunk == arg_chunks[loop_i + 1]
            topic == item_or_default(topics, loop_i, "General")
            difficulty == item_or_default(difficulties, loop_i, "Intermediate")
            quiz == generate_quiz_questions(chunk, topic, difficulty, outcome)
        IN  /\ calls' = Append(calls, [chunk |-> chunk, topic |-> topic,
                                       difficulty |-> difficulty])
            /\ outcomes' = Append(outcomes, outcome)
            /\ IF quiz.raised
               THEN /\ pc' = "raised"
                    /\ UNCHANGED <<quizzes, loop_i, returned>>
               ELSE /\ returned' = Append(returned, quiz.value)
                    /\ quizzes' = Append(quizzes,
                            batch_entry(loop_i, chunk, topic, difficulty, quiz.value))
                    /\ loop_i' = loop_i + 1
                    /\ pc' = pc
    /\ UNCHANGED <<arg_chunks, arg_topics, arg_difficulties, topics, difficulties>>
    /\ UNCHANGED <<validate_vars, score_vars, export_vars, app_vars>>

generate_quiz_batch_return ==
    /\ pc = "loop"
    /\ loop_i = Len(arg_chunks)
    /\ pc' = "returned"
    /\ UNCHANGED <<arg_chunks, arg_topics, arg_difficulties, topics, difficulties,
                   quizzes, loop_i, calls, outcomes, returned>>
    /\ UNCHANGED <<validate_vars, score_vars, export_vars, app_vars>>

\* The list generate_quiz_batch returns when the service does outs[k] on the
\* k-th request: the entries its loop appends, in order.
generate_quiz_batch(chunks, topics_arg, difficulties_arg, outs) ==
    LET topic(k) == item_or_default(default_list(topics_arg, chunks, "General"),
                                    k - 1, "General")
        difficulty(k) == item_or_default(
                            default_list(difficulties_arg, chunks, "Intermediate"),
                            k - 1, "Intermediate")
        quiz(k) == generate_quiz_questions(chunks[k], topic(k), difficulty(k), outs[k])
    IN  IF \E k \in 1..Len(chunks) : quiz(k).raised
        THEN quiz(CHOOSE k \in 1..Len(chunks) :
                    quiz(k).raised /\ \A n \in 1..(k - 1) : ~quiz(n).raised)
        ELSE Return([k \in 1..Len(chunks) |->
                        batch_entry(k - 1, chunks[k], topic(k), difficulty(k),
                                    quiz(k).value)])

\* An optional list argument: None, or the first n elements of pool.
OptionalLists(pool) ==
    {None} \cup {List(SubSeq(pool, 1, n)) : n \in 0..MaxListLen}

BatchIdle ==
    /\ topics = <<>>
    /\ difficulties = <<>>
    /\ quizzes = <<>>
    /\ loop_i = 0
    /\ calls = <<>>
    /\ outcomes = <<>>
    /\ returned = <<>>

ValidateIdle ==
    /\ val_quiz_data = EmptyDict
    /\ validation_result = Return(None)

ScoreIdle ==
    /\ answers = EmptyDict
    /\ quiz_data = EmptyDict
    /\ score_result = Return(None)

\* No directory made, no file written.
EmptyFs == [dirs |-> {}, files |-> <<>>]

ExportIdle ==
    /\ exp_quizzes = <<>>
    /\ fs = EmptyFs
    /\ exp_result = Return(None)

\* QuizGenerator.__init__
AppInit ==
    /\ self_quizzes = <<>>
    /\ self_current_file = None
    /\ self_chunks = <<>>
    /\ app_result = None
    /\ n_calls = 0

Init ==
    /\ pc = "idle"
    /\ arg_chunks \in SeqsUpTo(ChunkPool, MaxChunks)
    /\ arg_topics \in OptionalLists(DEFAULT_TOPICS)
    /\ arg_difficulties \in OptionalLists(DEFAULT_DIFFICULTIES)
    /\ BatchIdle
    /\ ValidateIdle
    /\ ScoreIdle
    /\ ExportIdle
    /\ AppInit

Next ==
    \/ generate_quiz_batch_enter
    \/ generate_quiz_batch_loop
    \/ generate_quiz_batch_return

Spec == Init /\ [][Next]_vars

(***************************************************************************)
(* Properties of generate_quiz_batch, checked under Spec.                  *)
(***************************************************************************)
IsErrorEntry(q) == "error" \in DOMAIN q

\* Request k (1-based) got a reply that is text and not JSON.
ParseFailed(k) ==
    /\ outcomes[k].kind = "response"
    /\ outcomes[k].content.ty = "str"
    /\ outcomes[k].content.v = ReplyProse

\* Entry q was built from the document doc returned for its chunk: it is the
\* placeholder, or it holds every key of doc but the two the batch sets.
EntryFrom(q, doc) ==
    \/ IsErrorEntry(q)
    \/ /\ doc.ty = "dict"
       /\ DOMAIN q = DOMAIN doc.v \cup {"chunk_index", "chunk_preview"}
       /\ \A key \in DOMAIN doc.v \ {"chunk_index", "chunk_preview"} : q[key] = doc.v[key]

\* C1: generate_quiz_batch returns one entry per chunk, in chunk order: the
\* result is as long as chunks, its i-th entry comes from the request made
\* for the i-th chunk and has chunk_index = i, whatever the service did.
C1_OneEntryPerChunkInOrder ==
    pc = "returned" =>
        /\ Len(quizzes) = Len(arg_chunks)
        /\ \A k \in 1..Len(quizzes) :
            /\ quizzes[k].chunk_index = k - 1
            /\ calls[k].chunk = arg_chunks[k]
            /\ EntryFrom(quizzes[k], returned[k])

\* C1 witness: a returned batch of two chunks, the first request raised and
\* the second reply is a document that brings a chunk_index of its own.
C1_Witness ==
    /\ pc = "returned"
    /\ Len(arg_chunks) = 2
    /\ outcomes[1].kind = "raise"
    /\ outcomes[2].content = Str(ReplyQuizIndexed)
    /\ ~IsErrorEntry(quizzes[2])

\* What generate_quiz_questions is to return when the service did o.
IsServiceErrorRecord(x) ==
    /\ x.ty = "dict"
    /\ DOMAIN x.v = {"error"}

IsParseErrorRecord(x, o) ==
    /\ x.ty = "dict"
    /\ DOMAIN x.v = {"raw_content", "error"}
    /\ x.v.raw_content = o.content.v

ReturnedFor(x, o) ==
    CASE o.kind = "raise" -> IsServiceErrorRecord(x)
      [] o.kind = "response" /\ o.content.ty # "str" -> IsServiceErrorRecord(x)
      [] o.kind = "response" /\ o.content.ty = "str" /\ o.content.v = ReplyProse ->
            IsParseErrorRecord(x, o)
      [] OTHER -> ~json_loads(o.content).raised /\ x = json_loads(o.content).value

\* C2: no failure of the service escapes as an exception: every request made
\* so far has a returned value (the parsed document, a parse-error record or
\* a service-error record), the loop goes on after each of them, and the
\* batch returns only when every chunk has had its request.
C2_NoServiceFailureEscapes ==
    /\ pc # "raised"
    /\ Len(returned) = Len(outcomes)
    /\ \A k \in 1..Len(outcomes) : ReturnedFor(returned[k], outcomes[k])
    /\ pc = "loop" => Len(quizzes) = Len(outcomes) /\ loop_i = Len(outcomes)
    /\ pc = "loop" /\ loop_i < Len(arg_chunks) => ENABLED generate_quiz_batch_loop
    /\ pc = "returned" => Len(outcomes) = Len(arg_chunks)

\* C2 witness: a returned batch of two chunks whose first request raised and
\* whose second got text that is not JSON.
C2_Witness ==
    /\ pc = "returned"
    /\ Len(quizzes) = 2
    /\ outcomes[1].kind = "raise"
    /\ ParseFailed(2)

\* C3: in the returned batch, the entry of a chunk whose reply failed to
\* parse is error-tagged, carries the raw reply text with a reason, and has
\* none of the four variant keys.
C3_ParseFailureEntryCarriesRawReply ==
    pc = "returned" =>
        \A k \in 1..Len(quizzes) :
            ParseFailed(k) =>
                /\ IsErrorEntry(quizzes[k])
                /\ DOMAIN quizzes[k] \cap VariantKeys = {}
                /\ "raw_content" \in DOMAIN quizzes[k]
                /\ quizzes[k].raw_content = outcomes[k].content.v

\* The 1-based k-th element of an optional list argument, or the default.
ArgItem(arg, k, default) ==
    IF arg.ty = "list" /\ k <= Len(arg.v) THEN arg.v[k] ELSE default

\* C4: the topic and difficulty of chunk i are topics[i] / difficulties[i]
\* where the argument has such an element and "General" / "Intermediate"
\* otherwise (an omitted argument included); they are what the request for
\* chunk i carries and what an error record for chunk i stores.
C4_TopicAndDifficultyDefaults ==
    \A k \in 1..Len(calls) :
        /\ calls[k].topic = ArgItem(arg_topics, k, "General")
        /\ calls[k].difficulty = ArgItem(arg_difficulties, k, "Intermediate")
        /\ k <= Len(quizzes) /\ IsErrorEntry(quizzes[k]) =>
            /\ quizzes[k].topic = ArgItem(arg_topics, k, "General")
            /\ quizzes[k].difficulty = ArgItem(arg_difficulties, k, "Intermediate")

\* C4 witness: two chunks and a topics list of one element: the first error
\* record has the listed topic and the second the default.
C4_Witness ==
    /\ pc = "returned"
    /\ Len(quizzes) = 2
    /\ arg_topics.ty = "list"
    /\ Len(arg_topics.v) = 1
    /\ arg_difficulties.ty = "NoneType"
    /\ IsErrorEntry(quizzes[1])
    /\ IsErrorEntry(quizzes[2])
    /\ quizzes[1].topic = "GMP"
    /\ quizzes[2].topic = "General"

\* C18: during generate_quiz_batch the service is called once per chunk, in
\* chunk order: a step issues at most one request, for the chunk that
\* follows those already requested, and only when every earlier request has
\* returned or failed; no request is withdrawn or repeated, a failed one
\* included, so the batch returns after exactly as many requests as chunks.
C18_OneCallPerChunkInOrder ==
    [][/\ Len(calls') \in {Len(calls), Len(calls) + 1}
       /\ SubSeq(calls', 1, Len(calls)) = calls
       /\ Len(calls') = Len(calls) + 1 =>
            /\ Len(outcomes) = Len(calls)
            /\ Len(outcomes') = Len(calls')
            /\ SubSeq(outcomes', 1, Len(outcomes)) = outcomes
            /\ calls'[Len(calls')].chunk = arg_chunks[Len(calls')]
            /\ loop_i' = Len(calls')
       /\ pc' = "returned" =>
            /\ Len(calls') = Len(arg_chunks)
            /\ \A k \in 1..Len(arg_chunks) : calls'[k].chunk = arg_chunks[k]]_vars

\* C18 witness: a returned batch of two different chunks whose first
\* request failed: two requests were made, the second for the second chunk.
C18_Witness ==
    /\ pc = "returned"
    /\ Len(arg_chunks) = 2
    /\ arg_chunks[1] # arg_chunks[2]
    /\ outcomes[1].kind = "raise"
    /\ Len(calls) = 2
    /\ calls[1].chunk = arg_chunks[1]
    /\ calls[2].chunk = arg_chunks[2]

\* p is the preview of chunk c: c itself when c has at most 200 characters,
\* else the first 200 characters of c followed by "...".
IsPreviewOf(p, c) ==
    IF Len(c) <= 200
    THEN p = c
    ELSE /\ Len(p) = 203
         /\ \A j \in 1..200 : p[j] = c[j]
         /\ \A j \in 201..203 : p[j] = "."

\* C5: every entry of the batch, success or error record, has as
\* chunk_preview the preview of its chunk.
C5_ChunkPreview ==
    \A k \in 1..Len(quizzes) : IsPreviewOf(quizzes[k].chunk_preview, arg_chunks[k])

\* C5 witness: a success entry for a chunk of more than 200 characters and an
\* error record for a chunk of exactly 200.
C5_Witness ==
    /\ pc = "returned"
    /\ Len(quizzes) = 2
    /\ Len(arg_chunks[1]) > 200
    /\ ~IsErrorEntry(quizzes[1])
    /\ Len(quizzes[1].chunk_preview) = 203
    /\ Len(arg_chunks[2]) = 200
    /\ IsErrorEntry(quizzes[2])
    /\ quizzes[2].chunk_preview = arg_chunks[2]

(***************************************************************************)
(* validate_quiz_structure.                                                *)
(***************************************************************************)
\* Mutant: only topic is required.
required_fields_topic_only == <<"topic">>

required_fields == <<"topic", "difficulty">>

question_types == <<"mcq", "true_false", "matching", "fill_blank">>

\* all(key in x for key in keys): membership in a dict tests its keys, in a
\* list its elements; None has no membership test.
all_keys_in(keys, x) ==
    CASE x.ty = "dict" -> Return(\A j \in 1..Len(keys) : keys[j] \in DOMAIN x.v)
      [] x.ty = "list" ->
            Return(\A j \in 1..Len(keys) : \E n \in 1..Len(x.v) : x.v[n] = keys[j])
      [] OTHER -> Raise("TypeError")

\* x.get(key, default): only a dict has get.
dict_get(x, key, default) ==
    IF x.ty = "dict" THEN Return(Get(x.v, key, default)) ELSE Raise("AttributeError")

\* len(x)
len(x) ==
    CASE x.ty = "list" -> Return(Len(x.v))
      [] x.ty = "str" -> Return(Len(x.v))
      [] x.ty = "dict" -> Return(Cardinality(DOMAIN x.v))
      [] OTHER -> Raise("TypeError")

\* Mutant: fewer than 4 options are reported, more are not.
mcq_warnings_fewer_than_4(mcq) ==
    LET complete == all_keys_in(<<"question", "options", "correct_answer">>, mcq)
    IN  IF complete.raised THEN complete
        ELSE IF ~complete.value THEN Return(<<"MCQ missing required fields">>)
        ELSE LET options == dict_get(mcq, "options", List(<<>>))
             IN  IF options.raised THEN options
                 ELSE LET n == len(options.value)
                      IN  IF n.raised THEN n
                          ELSE IF n.value < 4
                               THEN Return(<<"MCQ should have exactly 4 options">>)
                               ELSE Return(<<>>)

\* The warnings of the block "if 'mcq' in quiz_data", or what it raises.
mcq_warnings(mcq) ==
    LET complete == all_keys_in(<<"question", "options", "correct_answer">>, mcq)
    IN  IF complete.raised THEN complete
        ELSE IF ~complete.value THEN Return(<<"MCQ missing required fields">>)
        ELSE LET options == dict_get(mcq, "options", List(<<>>))
             IN  IF options.raised THEN options
                 ELSE LET n == len(options.value)
                      IN  IF n.raised THEN n
                          ELSE IF n.value # 4
                               THEN Return(<<"MCQ should have exactly 4 options">>)
                               ELSE Return(<<>>)

\* x not in ["True", "False"]
not_in_true_false(x) == ~(x.ty = "str" /\ x.v \in {TrueText, FalseText})

\* The warnings of the block "if 'true_false' in quiz_data", or what it raises.
true_false_warnings(tf) ==
    LET complete == all_keys_in(<<"question", "correct_answer">>, tf)
    IN  IF complete.raised THEN complete
        ELSE IF ~complete.value
             THEN Return(<<"True/False question missing required fields">>)
        ELSE LET correct_answer == dict_get(tf, "correct_answer", None)
             IN  IF correct_answer.raised THEN correct_answer
                 ELSE IF not_in_true_false(correct_answer.value)
                      THEN Return(<<"True/False answer should be 'True' or 'False'">>)
                      ELSE Return(<<>>)

\* The outcome of validate_quiz_structure(qd): the validation_result it
\* returns, or the exception a variant that is no dict makes it raise.
validate_quiz_structure(qd) ==
    LET missing == SelectSeq(required_fields, LAMBDA field : field \notin DOMAIN qd)
        is_valid_1 == IF missing # <<>> THEN FALSE ELSE TRUE
        errors_1 == [j \in 1..Len(missing) |-> "Missing required field: " \o missing[j]]
        existing_types == SelectSeq(question_types, LAMBDA qt : qt \in DOMAIN qd)
        is_valid_2 == IF existing_types = <<>> THEN FALSE ELSE is_valid_1
        errors_2 == IF existing_types = <<>>
                    THEN Append(errors_1, "No question types found")
                    ELSE errors_1
        mcq == IF "mcq" \in DOMAIN qd THEN mcq_warnings(qd.mcq) ELSE Return(<<>>)
        tf == IF "true_false" \in DOMAIN qd
              THEN true_false_warnings(qd.true_false)
              ELSE Return(<<>>)
    IN  IF mcq.raised THEN mcq
        ELSE IF tf.raised THEN tf
        ELSE Return([is_valid |-> is_valid_2,
                     errors |-> errors_2,
                     warnings |-> mcq.value \o tf.value])

validate_call ==
    /\ pc = "validate"
    /\ validation_result' = validate_quiz_structure(val_quiz_data)
    /\ pc' = "validated"
    /\ UNCHANGED <<val_quiz_data, batch_vars, score_vars, export_vars, app_vars>>

(***************************************************************************)
(* The records validation is applied to.                                   *)
(***************************************************************************)
OptionsValues == {None} \cup {List(Options(n)) : n \in {0} \cup 3..MaxOptions}

McqDicts ==
    {Merge(Merge(q, o), c) :
        q \in Optional("question", {"Q"}),
        o \in Optional("options", OptionsValues),
        c \in Optional("correct_answer", {Str(<<"b">>)})}

NonDicts == {None, List(<<>>)}

McqValues ==
    NonDicts \cup {List(<<"question", "options", "correct_answer">>)}
    \cup {Dict(d) : d \in McqDicts}

TrueFalseDicts ==
    {Merge(q, c) :
        q \in Optional("question", {"Q"}),
        c \in Optional("correct_answer",
                       {Str(TrueText), Str(FalseText), Str(<<"t", "r", "u", "e">>),
                        [ty |-> "bool", v |-> TRUE]})}

TrueFalseValues == NonDicts \cup {Dict(d) : d \in TrueFalseDicts}

MatchingValues ==
    {None, Dict(EmptyDict),
     Dict([question |-> "Q", pairs |-> List(<<Pair("A", "1"), Pair("B", "2")>>)])}

FillBlankValues ==
    {None, Dict(EmptyDict), Dict([question |-> "Q", correct_answer |-> Str(<<"b">>)])}

ValidateInputs ==
    {Merge(Merge(Merge(Merge(Merge(Merge(t, d), e), m), tf), ma), fb) :
        t \in Optional("topic", {"GMP"}),
        d \in Optional("difficulty", {"Expert"}),
        e \in Optional("error", {"Quiz generation failed for this chunk"}),
        m \in Optional("mcq", McqValues),
        tf \in Optional("true_false", TrueFalseValues),
        ma \in Optional("matching", MatchingValues),
        fb \in Optional("fill_blank", FillBlankValues)}

BatchUnused ==
    /\ arg_chunks = <<>>
    /\ arg_topics = None
    /\ arg_difficulties = None
    /\ BatchIdle

InitValidate ==
    /\ pc = "validate"
    /\ val_quiz_data \in ValidateInputs
    /\ validation_result = Return(None)
    /\ BatchUnused
    /\ ScoreIdle
    /\ ExportIdle
    /\ AppInit

NextValidate == validate_call

SpecValidate == InitValidate /\ [][NextValidate]_vars

(***************************************************************************)
(* Properties of validate_quiz_structure, checked under SpecValidate.      *)
(***************************************************************************)
Validated == pc = "validated" /\ ~validation_result.raised

Elements(s) == {s[j] : j \in 1..Len(s)}

HasVariant(qd) == DOMAIN qd \cap VariantKeys # {}

\* How many of the three invalidating conditions qd violates.
ViolatedConditions(qd) ==
    (IF "topic" \in DOMAIN qd THEN 0 ELSE 1)
    + (IF "difficulty" \in DOMAIN qd THEN 0 ELSE 1)
    + (IF HasVariant(qd) THEN 0 ELSE 1)

\* C6: validate_quiz_structure returns is_valid = true exactly when the
\* record has topic, difficulty and at least one variant key; each violated
\* condition adds one error (a missing difficulty one that names
\* "difficulty"); is_valid is false exactly when errors is not empty; the
\* warnings have no part in is_valid.
C6_ValidIffFieldsAndVariantPresent ==
    Validated =>
        LET qd == val_quiz_data
            result == validation_result.value
        IN  /\ result.is_valid =
                    ("topic" \in DOMAIN qd /\ "difficulty" \in DOMAIN qd /\ HasVariant(qd))
            /\ Len(result.errors) = ViolatedConditions(qd)
            /\ "topic" \notin DOMAIN qd =>
                    Count(result.errors, "Missing required field: topic") = 1
            /\ "difficulty" \notin DOMAIN qd =>
                    Count(result.errors, "Missing required field: difficulty") = 1
            /\ ~HasVariant(qd) => Count(result.errors, "No question types found") = 1
            /\ (result.is_valid = FALSE) = (result.errors # <<>>)

\* C6 witness: a record with every field but difficulty, whose MCQ draws a
\* warning: invalid, with the one error that names difficulty.
C6_Witness ==
    /\ Validated
    /\ "topic" \in DOMAIN val_quiz_data
    /\ "difficulty" \notin DOMAIN val_quiz_data
    /\ "mcq" \in DOMAIN val_quiz_data
    /\ validation_result.value.is_valid = FALSE
    /\ validation_result.value.errors = <<"Missing required field: difficulty">>
    /\ validation_result.value.warnings # <<>>

\* x lacks one of keys: it is no dict, or a dict without one of them.
Lacks(x, keys) == x.ty # "dict" \/ ~(keys \subseteq DOMAIN x.v)

McqKeys == {"question", "options", "correct_answer"}

TrueFalseKeys == {"question", "correct_answer"}

\* qd with the values of its Matching and FillBlank variants emptied.
WithoutContents(qd) ==
    [key \in DOMAIN qd |->
        IF key \in {"matching", "fill_blank"} THEN Dict(EmptyDict) ELSE qd[key]]

\* C7: an MCQ that lacks one of question/options/correct_answer, or whose
\* options are not 4, draws a warning; so does a TrueFalse that lacks a
\* required field or whose correct_answer is neither "True" nor "False".  A
\* complete MCQ of 3 options in a record with topic and difficulty gives
\* is_valid = true and exactly one warning about the option count.  What a
\* Matching or FillBlank variant holds changes neither warnings nor errors.
C7_WarningsForMcqAndTrueFalseOnly ==
    Validated =>
        LET qd == val_quiz_data
            result == validation_result.value
        IN  /\ "mcq" \in DOMAIN qd /\ Lacks(qd.mcq, McqKeys) =>
                    Count(result.warnings, "MCQ missing required fields") = 1
            /\ "mcq" \in DOMAIN qd /\ ~Lacks(qd.mcq, McqKeys)
                    /\ Len(qd.mcq.v.options.v) # 4 =>
                    Count(result.warnings, "MCQ should have exactly 4 options") = 1
            /\ "true_false" \in DOMAIN qd /\ Lacks(qd.true_false, TrueFalseKeys) =>
                    Count(result.warnings, "True/False question missing required fields") = 1
            /\ "true_false" \in DOMAIN qd /\ ~Lacks(qd.true_false, TrueFalseKeys)
                    /\ ~(/\ qd.true_false.v.correct_answer.ty = "str"
                         /\ qd.true_false.v.correct_answer.v \in {TrueText, FalseText}) =>
                    Count(result.warnings, "True/False answer should be 'True' or 'False'") = 1
            /\ "mcq" \in DOMAIN qd /\ ~Lacks(qd.mcq, McqKeys)
                    /\ Len(qd.mcq.v.options.v) = 3
                    /\ "topic" \in DOMAIN qd /\ "difficulty" \in DOMAIN qd =>
                    /\ result.is_valid
                    /\ Cardinality({j \in 1..Len(result.warnings) :
                            result.warnings[j] \in {"MCQ missing required fields",
                                                    "MCQ should have exactly 4 options"}}) = 1
                    /\ result.warnings[1] = "MCQ should have exactly 4 options"
            /\ validate_quiz_structure(WithoutContents(qd)) = validation_result

\* C7 witness: topic, difficulty, a complete MCQ of 3 options and a Matching
\* variant that is not even an object: valid, with the one warning.
C7_Witness ==
    /\ Validated
    /\ DOMAIN val_quiz_data = {"topic", "difficulty", "mcq", "matching"}
    /\ val_quiz_data.mcq.ty = "dict"
    /\ DOMAIN val_quiz_data.mcq.v = McqKeys
    /\ val_quiz_data.mcq.v.options = List(Options(3))
    /\ val_quiz_data.matching = None
    /\ validation_result.value.is_valid
    /\ validation_result.value.warnings = <<"MCQ should have exactly 4 options">>

(***************************************************************************)
(* Text operations of calculate_quiz_score.  Text is a sequence of         *)
(* characters; lower() maps each capital letter to its small letter and    *)
(* strip() drops the leading and trailing whitespace.                      *)
(***************************************************************************)
Capitals ==
    <<"A", "B", "C", "D", "E", "F", "G", "H", "I", "J", "K", "L", "M",
      "N", "O", "P", "Q", "R", "S", "T", "U", "V", "W", "X", "Y", "Z">>

Smalls ==
    <<"a", "b", "c", "d", "e", "f", "g", "h", "i", "j", "k", "l", "m",
      "n", "o", "p", "q", "r", "s", "t", "u", "v", "w", "x", "y", "z">>

Whitespace == {" ", "\t", "\n", "\r"}

lower_char(c) ==
    IF \E n \in 1..Len(Capitals) : Capitals[n] = c
    THEN Smalls[CHOOSE n \in 1..Len(Capitals) : Capitals[n] = c]
    ELSE c

\* Mutant: the comparison is case-sensitive.
lower_unchanged(x) ==
    IF x.ty = "str" THEN Return(x) ELSE Raise("AttributeError")

\* x.lower(): only text has lower.
lower(x) ==
    IF x.ty = "str"
    THEN Return(Str([j \in 1..Len(x.v) |-> lower_char(x.v[j])]))
    ELSE Raise("AttributeError")

\* x.strip() of a text value
strip(x) ==
    LET kept == {j \in 1..Len(x.v) : x.v[j] \notin Whitespace}
        first == CHOOSE j \in kept : \A n \in kept : j <= n
        last == CHOOSE j \in kept : \A n \in kept : n <= j
    IN  IF kept = {} THEN Str(<<>>) ELSE Str(SubSeq(x.v, first, last))

(***************************************************************************)
(* calculate_quiz_score.  score_result is threaded through the four        *)
(* blocks in the order of the source; a block that raises ends the call.   *)
(* detailed_results is a dict in insertion order: a sequence of items.     *)
(* score_percentage is the exact quotient, a fraction num/den.             *)
(***************************************************************************)
Item(key, value) == [key |-> key, value |-> value]

\* d[key] = value on an insertion-ordered dict
PutItem(items, key, value) ==
    IF \E j \in 1..Len(items) : items[j].key = key
    THEN [j \in 1..Len(items) |->
            IF items[j].key = key THEN Item(key, value) ELSE items[j]]
    ELSE Append(items, Item(key, value))

Fraction(num, den) == [num |-> num, den |-> den]

\* r >= n for a fraction r with den > 0
AtLeast(r, n) == r.num >= n * r.den

initial_score_result ==
    [total_questions |-> 0,
     correct_answers |-> 0,
     score_percentage |-> Fraction(0, 1),
     detailed_results |-> <<>>,
     feedback |-> <<>>]

EmptyText == Str(<<>>)

\* The two outcomes of a block, recorded under key.
scored_correct(sr, key, feedback) ==
    [sr EXCEPT !.correct_answers = @ + 1,
               !.detailed_results =
                    PutItem(@, key, [correct |-> TRUE, feedback |-> feedback])]

scored_incorrect(sr, key, feedback, explanation) ==
    [sr EXCEPT !.detailed_results =
                    PutItem(@, key, [correct |-> FALSE, feedback |-> feedback,
                                     explanation |-> explanation])]

\* The block "if 'mcq' in quiz_data".
score_mcq(sr, ans, qd) ==
    IF "mcq" \notin DOMAIN qd THEN Return(sr)
    ELSE LET counted == [sr EXCEPT !.total_questions = @ + 1]
             mcq == qd.mcq
             user_answer == Get(ans, "mcq", EmptyText)
             correct_answer == dict_get(mcq, "correct_answer", EmptyText)
         IN  IF correct_answer.raised THEN correct_answer
             ELSE LET submitted == lower(user_answer)
                      stored == lower(correct_answer.value)
                  IN  IF submitted.raised THEN submitted
                      ELSE IF stored.raised THEN stored
                      ELSE IF submitted.value = stored.value
                      THEN Return(scored_correct(counted, "mcq", <<"Correct!">>))
                      ELSE Return(scored_incorrect(counted, "mcq",
                                <<"Incorrect. The correct answer is ",
                                  correct_answer.value.v, ".">>,
                                Get(mcq.v, "explanation", "")))

\* Mutant: the block does not count its question.
score_true_false_not_counted(sr, ans, qd) ==
    IF "true_false" \notin DOMAIN qd THEN Return(sr)
    ELSE LET tf == qd.true_false
             user_answer == Get(ans, "true_false", EmptyText)
             correct_answer == dict_get(tf, "correct_answer", EmptyText)
         IN  IF correct_answer.raised THEN correct_answer
             ELSE LET submitted == lower(user_answer)
                      stored == lower(correct_answer.value)
                  IN  IF submitted.raised THEN submitted
                      ELSE IF stored.raised THEN stored
                      ELSE IF submitted.value = stored.value
                      THEN Return(scored_correct(sr, "true_false", <<"Correct!">>))
                      ELSE Return(scored_incorrect(sr, "true_false",
                                <<"Incorrect. The correct answer is ",
                                  correct_answer.value.v, ".">>,
                                Get(tf.v, "explanation", "")))

\* The block "if 'true_false' in quiz_data".
score_true_false(sr, ans, qd) ==
    IF "true_false" \notin DOMAIN qd THEN Return(sr)
    ELSE LET counted == [sr EXCEPT !.total_questions = @ + 1]
             tf == qd.true_false
             user_answer == Get(ans, "true_false", EmptyText)
             correct_answer == dict_get(tf, "correct_answer", EmptyText)
         IN  IF correct_answer.raised THEN correct_answer
             ELSE LET submitted == lower(user_answer)
                      stored == lower(correct_answer.value)
                  IN  IF submitted.raised THEN submitted
                      ELSE IF stored.raised THEN stored
                      ELSE IF submitted.value = stored.value
                      THEN Return(scored_correct(counted, "true_false", <<"Correct!">>))
                      ELSE Return(scored_incorrect(counted, "true_false",
                                <<"Incorrect. The correct answer is ",
                                  correct_answer.value.v, ".">>,
                                Get(tf.v, "explanation", "")))

\* str(n) for the small counts of the model
Digits == <<"0", "1", "2", "3", "4", "5", "6", "7", "8", "9">>

str(n) == IF n < 10 THEN Digits[n + 1] ELSE Digits[(n \div 10) + 1] \o Digits[(n % 10) + 1]

\* The number of pairs whose definition the submitted mapping gives for the
\* pair's term: user_answers.get(term) == pair.get("definition", "").
correct_matches(pairs, user_answers) ==
    Cardinality({j \in 1..Len(pairs) :
        LET term == Get(pairs[j].v, "term", "")
        IN  /\ term \in DOMAIN user_answers
            /\ user_answers[term] = Get(pairs[j].v, "definition", "")})

\* Mutant: the two counts are swapped in the text.
partial_feedback_swapped(matches, total_pairs) ==
    <<"Partially correct. You got ", str(total_pairs), "/", str(matches),
      " matches right.">>

\* f"Partially correct. You got {correct_matches}/{total_pairs} matches right."
partial_feedback(matches, total_pairs) ==
    <<"Partially correct. You got ", str(matches), "/", str(total_pairs),
      " matches right.">>

\* Mutant: a majority of matched pairs earns the credit.
score_matching_majority(sr, ans, qd) ==
    IF "matching" \notin DOMAIN qd THEN Return(sr)
    ELSE LET counted == [sr EXCEPT !.total_questions = @ + 1]
             matching == qd.matching
             user_answers == Get(ans, "matching", EmptyDict)
             pairs == dict_get(matching, "pairs", List(<<>>))
         IN  IF pairs.raised THEN pairs
             ELSE LET total_pairs == len(pairs.value)
                  IN  IF total_pairs.raised THEN total_pairs
                      ELSE LET matches == correct_matches(pairs.value.v, user_answers)
                           IN  IF 2 * matches >= total_pairs.value
                               THEN Return(scored_correct(counted, "matching",
                                                          <<"Perfect matching!">>))
                               ELSE Return(scored_incorrect(counted, "matching",
                                        partial_feedback(matches, total_pairs.value),
                                        Get(matching.v, "explanation", "")))

\* The block "if 'matching' in quiz_data".
score_matching(sr, ans, qd) ==
    IF "matching" \notin DOMAIN qd THEN Return(sr)
    ELSE LET counted == [sr EXCEPT !.total_questions = @ + 1]
             matching == qd.matching
             user_answers == Get(ans, "matching", EmptyDict)
             pairs == dict_get(matching, "pairs", List(<<>>))
         IN  IF pairs.raised THEN pairs
             ELSE LET total_pairs == len(pairs.value)
                  IN  IF total_pairs.raised THEN total_pairs
                      ELSE LET matches == correct_matches(pairs.value.v, user_answers)
                           IN  IF matches = total_pairs.value
                               THEN Return(scored_correct(counted, "matching",
                                                          <<"Perfect matching!">>))
                               ELSE Return(scored_incorrect(counted, "matching",
                                        partial_feedback(matches, total_pairs.value),
                                        Get(matching.v, "explanation", "")))

\* The block "if 'fill_blank' in quiz_data".
score_fill_blank(sr, ans, qd) ==
    IF "fill_blank" \notin DOMAIN qd THEN Return(sr)
    ELSE LET counted == [sr EXCEPT !.total_questions = @ + 1]
             fill == qd.fill_blank
             user_answer == Get(ans, "fill_blank", EmptyText)
             correct_answer == dict_get(fill, "correct_answer", EmptyText)
         IN  IF correct_answer.raised THEN correct_answer
             ELSE LET submitted == lower(user_answer)
                      stored == lower(correct_answer.value)
                  IN  IF submitted.raised THEN submitted
                      ELSE IF stored.raised THEN stored
                      ELSE IF strip(submitted.value) = strip(stored.value)
                      THEN Return(scored_correct(counted, "fill_blank", <<"Correct!">>))
                      ELSE Return(scored_incorrect(counted, "fill_blank",
                                <<"Incorrect. The correct answer is '",
                                  correct_answer.value.v, "'.">>,
                                Get(fill.v, "explanation", "")))

\* Mutant: floor division, (correct // total) * 100.
percentage_floor_division(sr) ==
    IF sr.total_questions > 0
    THEN Fraction((sr.correct_answers \div sr.total_questions) * 100, 1)
    ELSE sr.score_percentage

\* (correct_answers / total_questions) * 100 when total_questions > 0
percentage(sr) ==
    IF sr.total_questions > 0
    THEN Fraction(sr.correct_answers * 100, sr.total_questions)
    ELSE sr.score_percentage

\* Mutant: the thresholds are exclusive, > where the code has >=.
overall_feedback_exclusive(score_percentage) ==
    IF ~AtLeast(Fraction(90 * score_percentage.den, 1), score_percentage.num)
    THEN "Excellent! You have a strong understanding of this topic."
    ELSE IF ~AtLeast(Fraction(70 * score_percentage.den, 1), score_percentage.num)
    THEN "Good job! You understand most of the concepts."
    ELSE IF ~AtLeast(Fraction(50 * score_percentage.den, 1), score_percentage.num)
    THEN "Fair performance. Consider reviewing the material."
    ELSE "You may need to review this topic more thoroughly."

\* The line appended to feedback for a score_percentage.
overall_feedback(score_percentage) ==
    IF AtLeast(score_percentage, 90)
    THEN "Excellent! You have a strong understanding of this topic."
    ELSE IF AtLeast(score_percentage, 70)
    THEN "Good job! You understand most of the concepts."
    ELSE IF AtLeast(score_percentage, 50)
    THEN "Fair performance. Consider reviewing the material."
    ELSE "You may need to review this topic more thoroughly."

\* The outcome of calculate_quiz_score(ans, qd): the score_result it
\* returns, or the exception a value of the wrong type makes it raise.
calculate_quiz_score(ans, qd) ==
    LET s1 == score_mcq(initial_score_result, ans, qd)
    IN  IF s1.raised THEN s1
        ELSE LET s2 == score_true_false(s1.value, ans, qd)
        IN  IF s2.raised THEN s2
        ELSE LET s3 == score_matching(s2.value, ans, qd)
        IN  IF s3.raised THEN s3
        ELSE LET s4 == score_fill_blank(s3.value, ans, qd)
        IN  IF s4.raised THEN s4
        ELSE LET s5 == [s4.value EXCEPT !.score_percentage = percentage(s4.value)]
             IN  Return([s5 EXCEPT !.feedback =
                            Append(@, overall_feedback(s5.score_percentage))])

score_call ==
    /\ pc = "score"
    /\ score_result' = calculate_quiz_score(answers, quiz_data)
    /\ pc' = "scored"
    /\ UNCHANGED <<answers, quiz_data, batch_vars, validate_vars, export_vars, app_vars>>

(***************************************************************************)
(* The records and answers scoring is applied to: one family varies the    *)
(* text of the stored and the submitted answers of the MCQ and FillBlank   *)
(* variants, the other the variant kinds present and their types.          *)
(***************************************************************************)
Alphabet == {"b", "B", " "}

Submissions == {Str(t) : t \in SeqsUpTo(Alphabet, MaxStrLen)}

StoredAnswers == {Str(<<"b">>), Str(<<"B">>), Str(<<"b", " ">>), EmptyText}

TextVariants ==
    {Dict(Merge([question |-> "Q", explanation |-> "E"], c)) :
        c \in Optional("correct_answer", StoredAnswers)}

TextRichInputs ==
    {[answers |-> Merge(am, af), quiz_data |-> Merge(m, f)] :
        am \in Optional("mcq", Submissions),
        af \in Optional("fill_blank", Submissions),
        m \in Optional("mcq", TextVariants),
        f \in Optional("fill_blank", TextVariants)}

McqScored ==
    {None,
     Dict([question |-> "Q"]),
     Dict([question |-> "Q", options |-> List(Options(4)),
           correct_answer |-> Str(<<"b">>), explanation |-> "E"])}

TrueFalseScored ==
    {List(<<>>),
     Dict([question |-> "Q", correct_answer |-> [ty |-> "bool", v |-> TRUE]]),
     Dict([question |-> "Q", correct_answer |-> Str(TrueText), explanation |-> "E"])}

MatchingScored ==
    {Dict(EmptyDict),
     Dict([question |-> "Q", pairs |-> None]),
     Dict([question |-> "Q", pairs |-> List(<<Pair("A", "1"), Pair("B", "2")>>),
           explanation |-> "E"])}

FillBlankScored ==
    {Dict(EmptyDict),
     Dict([question |-> "Q", correct_answer |-> Str(<<"b">>), explanation |-> "E"])}

KindRichInputs ==
    {[answers |-> Merge(Merge(Merge(am, at), aa), af),
      quiz_data |-> Merge(Merge(Merge(Merge(e, m), t), a), f)] :
        am \in Optional("mcq", {Str(<<"B">>), Str(<<"a">>)}),
        at \in Optional("true_false", {Str(<<"t", "r", "u", "e">>), Str(FalseText)}),
        aa \in Optional("matching", {[A |-> "1", B |-> "2"], [A |-> "1", B |-> "wrong"]}),
        af \in Optional("fill_blank", {Str(<<" ", "B", " ">>), Str(<<"c">>)}),
        e \in Optional("error", {"Quiz generation failed for this chunk"}),
        m \in Optional("mcq", McqScored),
        t \in Optional("true_false", TrueFalseScored),
        a \in Optional("matching", MatchingScored),
        f \in Optional("fill_blank", FillBlankScored)}

\* A third family varies the pairs of a Matching variant and the mapping
\* submitted for it.
PairPool ==
    {Pair("A", "1"), Pair("A", "2"), Pair("B", "1"), Pair("B", "2"),
     Dict([term |-> "B"])}

Mappings(terms, definitions) ==
    UNION {[chosen -> definitions] : chosen \in SUBSET terms}

MatchingRichInputs ==
    {[answers |-> a,
      quiz_data |-> [matching |-> Dict([question |-> "Q", pairs |-> List(pairs)])]] :
        a \in Optional("matching", Mappings({"A", "B"}, {"1", "2", ""})),
        pairs \in SeqsUpTo(PairPool, MaxPairs)}

ScoreInputs == TextRichInputs \cup KindRichInputs \cup MatchingRichInputs

InitScore ==
    /\ pc = "score"
    /\ \E input \in ScoreInputs :
        /\ answers = input.answers
        /\ quiz_data = input.quiz_data
    /\ score_result = Return(None)
    /\ BatchUnused
    /\ ValidateIdle
    /\ ExportIdle
    /\ AppInit

NextScore == score_call

SpecScore == InitScore /\ [][NextScore]_vars

(***************************************************************************)
(* Properties of calculate_quiz_score, checked under SpecScore.            *)
(***************************************************************************)
Scored == pc = "scored" /\ ~score_result.raised

PresentKinds(qd) == SelectSeq(question_types, LAMBDA kind : kind \in DOMAIN qd)

\* The detailed result recorded under kind.
Detail(kind) ==
    LET items == score_result.value.detailed_results
    IN  items[CHOOSE j \in 1..Len(items) : items[j].key = kind].value

\* C8: total_questions is the number of variant kinds present in the
\* record; detailed_results has one entry per present kind and none for an
\* absent one, in the order MCQ, TrueFalse, Matching, FillBlank;
\* correct_answers is the number of entries with correct = true; so
\* 0 <= correct_answers <= total_questions <= 4.
C8_OneResultPerPresentKind ==
    Scored =>
        LET result == score_result.value
            items == result.detailed_results
        IN  /\ result.total_questions = Cardinality(DOMAIN quiz_data \cap VariantKeys)
            /\ [j \in 1..Len(items) |-> items[j].key] = PresentKinds(quiz_data)
            /\ result.correct_answers =
                    Cardinality({j \in 1..Len(items) : items[j].value.correct})
            /\ 0 <= result.correct_answers
            /\ result.correct_answers <= result.total_questions
            /\ result.total_questions <= 4

\* C8 witness: a record with the four kinds and answers to a kind it does
\* not need, scored with some and not all of them correct.
C8_Witness ==
    /\ Scored
    /\ VariantKeys \subseteq DOMAIN quiz_data
    /\ score_result.value.total_questions = 4
    /\ score_result.value.correct_answers = 2
    /\ Len(score_result.value.detailed_results) = 4
    /\ ~Detail("matching").correct

\* C9: score_percentage is correct_answers / total_questions * 100 when
\* total_questions > 0; a record with no variant, an error-tagged one
\* included, is scored without a fault, with total_questions = 0 and
\* score_percentage = 0.
C9_ScorePercentage ==
    /\ Scored =>
        LET result == score_result.value
        IN  /\ result.score_percentage.den > 0
            /\ result.total_questions > 0 =>
                    result.score_percentage.num * result.total_questions
                        = result.correct_answers * 100 * result.score_percentage.den
            /\ result.total_questions = 0 => result.score_percentage.num = 0
    /\ pc = "scored" /\ DOMAIN quiz_data \cap VariantKeys = {} =>
        /\ ~score_result.raised
        /\ score_result.value.total_questions = 0
        /\ score_result.value.score_percentage.num = 0

\* C9 witness: an error-tagged record with no variant, scored against
\* answers for two kinds.
C9_Witness ==
    /\ Scored
    /\ DOMAIN quiz_data = {"error"}
    /\ {"mcq", "matching"} \subseteq DOMAIN answers
    /\ score_result.value.total_questions = 0
    /\ score_result.value.score_percentage = Fraction(0, 1)

\* Two characters that are the same letter, whatever their case.
SameLetter(c, d) ==
    \/ c = d
    \/ \E n \in 1..Len(Capitals) : {c, d} = {Capitals[n], Smalls[n]}

\* Two texts equal but for the case of their letters.
SameIgnoringCase(s, t) ==
    /\ Len(s) = Len(t)
    /\ \A j \in 1..Len(s) : SameLetter(s[j], t[j])

\* The texts t such that s is t between leading and trailing whitespace
\* and t neither starts nor ends with whitespace (there is one).
Trimmed(s) ==
    {SubSeq(s, a + 1, Len(s) - b) : a \in 0..Len(s), b \in 0..Len(s)} \cap
    {t \in SeqsUpTo(Elements(s), Len(s)) :
        /\ \E a \in 0..(Len(s) - Len(t)) :
            /\ \A j \in 1..a : s[j] \in Whitespace
            /\ \A j \in 1..Len(t) : s[a + j] = t[j]
            /\ \A j \in (a + Len(t) + 1)..Len(s) : s[j] \in Whitespace
        /\ t # <<>> => t[1] \notin Whitespace /\ t[Len(t)] \notin Whitespace}

\* The text submitted for kind and the one the record stores for it, an
\* absent one counting as the empty text.
Submitted(kind) == Get(answers, kind, EmptyText).v

StoredAnswer(kind) == Get(quiz_data[kind].v, "correct_answer", EmptyText).v

\* C10: an MCQ or TrueFalse variant is scored correct exactly when the
\* submitted text equals the stored correct_answer but for letter case,
\* with no trimming; a FillBlank variant exactly when the two are equal but
\* for case once the surrounding whitespace of both is trimmed.  A record
\* with only an MCQ whose correct_answer is "b", answered "B", scores
\* correct = true and score_percentage = 100.
C10_CaseInsensitiveAndTrimmedMatch ==
    Scored =>
        /\ \A kind \in {"mcq", "true_false"} \cap DOMAIN quiz_data :
                Detail(kind).correct
                    = SameIgnoringCase(Submitted(kind), StoredAnswer(kind))
        /\ "fill_blank" \in DOMAIN quiz_data =>
                Detail("fill_blank").correct
                    = (\E s \in Trimmed(Submitted("fill_blank")),
                          t \in Trimmed(StoredAnswer("fill_blank")) :
                            SameIgnoringCase(s, t))
        /\ (/\ DOMAIN quiz_data \cap VariantKeys = {"mcq"}
            /\ StoredAnswer("mcq") = <<"b">>
            /\ Submitted("mcq") = <<"B">>) =>
                /\ Detail("mcq").correct
                /\ score_result.value.score_percentage.num
                        = 100 * score_result.value.score_percentage.den

\* C10 witness: the record with only an MCQ of correct_answer "b", answered
\* "B" for the MCQ and " b" for a FillBlank the record does not have.
C10_Witness ==
    /\ Scored
    /\ DOMAIN quiz_data = {"mcq"}
    /\ StoredAnswer("mcq") = <<"b">>
    /\ Submitted("mcq") = <<"B">>
    /\ Submitted("fill_blank") = <<" ", "b">>
    /\ Detail("mcq").correct
    /\ score_result.value.total_questions = 1
    /\ score_result.value.correct_answers = 1

\* The pairs of the record's Matching variant and the mapping submitted for it.
RecordPairs == Get(quiz_data.matching.v, "pairs", List(<<>>)).v

SubmittedMapping == Get(answers, "matching", EmptyDict)

\* The submitted mapping gives for pair its definition.
PairMatched(pair) ==
    LET term == Get(pair.v, "term", "")
    IN  /\ term \in DOMAIN SubmittedMapping
        /\ SubmittedMapping[term] = Get(pair.v, "definition", "")

MatchedPairs == Cardinality({j \in 1..Len(RecordPairs) : PairMatched(RecordPairs[j])})

\* The text holds the count "k/n".
StatesCount(text, k, n) ==
    \E j \in 1..(Len(text) - 2) :
        /\ text[j] = str(k)
        /\ text[j + 1] = "/"
        /\ text[j + 2] = str(n)

\* The entries of detailed_results, but the Matching one, that are correct.
CorrectElsewhere ==
    LET items == score_result.value.detailed_results
    IN  Cardinality({j \in 1..Len(items) :
            items[j].key # "matching" /\ items[j].value.correct})

\* C11: a Matching variant adds 1 to correct_answers exactly when the
\* submitted mapping gives every pair of the record its definition, and 0
\* otherwise however many pairs matched; with k of n pairs matched and k < n
\* the entry has correct = false and its feedback holds "k/n".  Pairs A->1,
\* B->2 answered A->1, B->wrong give correct = false and "1/2".
C11_MatchingAllOrNothing ==
    Scored /\ "matching" \in DOMAIN quiz_data =>
        LET all == \A j \in 1..Len(RecordPairs) : PairMatched(RecordPairs[j])
        IN  /\ Detail("matching").correct = all
            /\ score_result.value.correct_answers
                    = CorrectElsewhere + (IF all THEN 1 ELSE 0)
            /\ MatchedPairs < Len(RecordPairs) =>
                    /\ ~Detail("matching").correct
                    /\ StatesCount(Detail("matching").feedback,
                                   MatchedPairs, Len(RecordPairs))
            /\ (/\ RecordPairs = <<Pair("A", "1"), Pair("B", "2")>>
                /\ SubmittedMapping = [A |-> "1", B |-> "wrong"]) =>
                    /\ ~Detail("matching").correct
                    /\ StatesCount(Detail("matching").feedback, 1, 2)

\* C11 witness: pairs A->1, B->2 answered A->1, B->wrong in a record whose
\* other kinds are answered correctly.
C11_Witness ==
    /\ Scored
    /\ "matching" \in DOMAIN quiz_data
    /\ RecordPairs = <<Pair("A", "1"), Pair("B", "2")>>
    /\ SubmittedMapping = [A |-> "1", B |-> "wrong"]
    /\ ~Detail("matching").correct
    /\ score_result.value.total_questions = 4
    /\ score_result.value.correct_answers = 3

\* C12 as stated: the feedback of the Matching entry reports the count
\* matched/total of the pairs, when some pair is wrong and when every pair
\* matches alike.
C12_MatchingFeedbackAlwaysFraction ==
    Scored /\ "matching" \in DOMAIN quiz_data =>
        StatesCount(Detail("matching").feedback, MatchedPairs, Len(RecordPairs))

\* C12 amended: the feedback of the Matching entry reports the count
\* matched/total when some pair is not matched; when every pair matches (a
\* variant without pairs included) it is "Perfect matching!" and holds no
\* count.
C12_MatchingFeedbackFractionUnlessPerfect ==
    Scored /\ "matching" \in DOMAIN quiz_data =>
        IF MatchedPairs = Len(RecordPairs)
        THEN Detail("matching").feedback = <<"Perfect matching!">>
        ELSE /\ StatesCount(Detail("matching").feedback, MatchedPairs, Len(RecordPairs))
             /\ ~StatesCount(Detail("matching").feedback, Len(RecordPairs), MatchedPairs)

\* C12 witness: two pairs of which the submitted mapping matches the second
\* only.
C12_Witness ==
    /\ Scored
    /\ "matching" \in DOMAIN quiz_data
    /\ Len(RecordPairs) = 2
    /\ ~PairMatched(RecordPairs[1])
    /\ PairMatched(RecordPairs[2])
    /\ Detail("matching").feedback = partial_feedback(1, 2)

\* The qualitative line the thresholds give for correct of total answers.
Tier(correct, total) ==
    IF total = 0 THEN "You may need to review this topic more thoroughly."
    ELSE IF 100 * correct >= 90 * total
    THEN "Excellent! You have a strong understanding of this topic."
    ELSE IF 100 * correct >= 70 * total
    THEN "Good job! You understand most of the concepts."
    ELSE IF 100 * correct >= 50 * total
    THEN "Fair performance. Consider reviewing the material."
    ELSE "You may need to review this topic more thoroughly."

\* C13: feedback gets exactly one qualitative line, chosen by the score
\* alone: strong understanding iff percentage >= 90, good job iff
\* 70 <= percentage < 90, fair performance iff 50 <= percentage < 70, needs
\* review iff percentage < 50, no question at all included.
C13_FeedbackTier ==
    Scored =>
        LET result == score_result.value
        IN  /\ Len(result.feedback) = 1
            /\ result.feedback[1] = Tier(result.correct_answers, result.total_questions)
            /\ result.total_questions = 2 /\ result.correct_answers = 1 =>
                    result.feedback[1]
                        = "Fair performance. Consider reviewing the material."
            /\ result.total_questions = 4 /\ result.correct_answers = 3 =>
                    result.feedback[1] = "Good job! You understand most of the concepts."

\* C13 witness: one of two answers correct, a score of exactly 50.
C13_Witness ==
    /\ Scored
    /\ score_result.value.total_questions = 2
    /\ score_result.value.correct_answers = 1
    /\ score_result.value.feedback
            = <<"Fair performance. Consider reviewing the material.">>

\* C22: a variant for which user_answers holds no entry is never scored
\* correct: for every present variant kind whose key is absent from
\* user_answers the detailed result has correct = false, and correct_answers
\* counts none of these kinds, also when the record's correct_answer is
\* missing or empty and when a Matching variant has zero pairs.
C22_UnansweredNeverCorrect ==
    Scored =>
        LET present == DOMAIN quiz_data \cap VariantKeys
        IN  /\ \A kind \in present :
                kind \notin DOMAIN answers => ~Detail(kind).correct
            /\ score_result.value.correct_answers
                    <= Cardinality(present \cap DOMAIN answers)

(***************************************************************************)
(* Files.  Opening a file for writing or writing to it may fail: a call    *)
(* that writes takes the fault it meets.  A file that was written whole    *)
(* holds its content; one whose writing failed is left truncated.          *)
(***************************************************************************)
IOFaults == {"none", "open", "write"}

WholeFile(content) == [complete |-> TRUE, content |-> content]

TruncatedFile == [complete |-> FALSE]

\* with open(filename, 'w') as f: <write content>, under fault.
write_file(fsys, filename, content, fault) ==
    CASE fault = "open" -> [fs |-> fsys, raised |-> TRUE]
      [] fault = "write" ->
            [fs |-> [fsys EXCEPT !.files = SetItem(@, filename, TruncatedFile)],
             raised |-> TRUE]
      [] OTHER ->
            [fs |-> [fsys EXCEPT !.files = SetItem(@, filename, WholeFile(content))],
             raised |-> FALSE]

(***************************************************************************)
(* export_quiz_to_json.  The document json.dump writes for a list is an    *)
(* array with, for each element in order, the JSON value of its type.      *)
(***************************************************************************)
json_value(x) ==
    CASE x.ty = "dict" -> [json |-> "object", members |-> x.v]
      [] x.ty = "list" -> [json |-> "array", items |-> x.v]
      [] x.ty = "NoneType" -> [json |-> "null"]
      [] OTHER -> [json |-> "scalar", value |-> x.v]

json_dump(entries) ==
    [json |-> "array", items |-> [j \in 1..Len(entries) |-> json_value(entries[j])]]

\* What export_quiz_to_json returns and the file system it leaves.
export_quiz_to_json(fsys, entries, filename, fault) ==
    LET written == write_file(fsys, filename, json_dump(entries), fault)
    IN  [fs |-> written.fs, result |-> ~written.raised]

(***************************************************************************)
(* export_quiz_to_markdown.  The file is the sequence of its f.write       *)
(* calls; a write is the text of its literal, with {} where a value is     *)
(* formatted in, and the values formatted.                                 *)
(***************************************************************************)
Write(text, args) == [text |-> text, args |-> args]

RECURSIVE Flatten(_)
Flatten(ss) == IF ss = <<>> THEN <<>> ELSE Head(ss) \o Flatten(Tail(ss))

\* chr(n) for the small letters
chr(n) == Smalls[n - 96]

\* 'key' in quiz and isinstance(quiz['key'], dict)
has_dict(quiz, key) == key \in DOMAIN quiz /\ quiz[key].ty = "dict"

\* Mutant: sections are numbered from 0, f"## Quiz {i}".
markdown_invalid_from_0(i) ==
    <<Write("## Quiz {} - Invalid Quiz\n\n", <<i>>),
      Write("**Error:** This quiz could not be generated properly.\n\n", <<>>),
      Write("---\n\n", <<>>)>>

\* The section of an entry that is empty or no dict.
markdown_invalid(i) ==
    <<Write("## Quiz {} - Invalid Quiz\n\n", <<i + 1>>),
      Write("**Error:** This quiz could not be generated properly.\n\n", <<>>),
      Write("---\n\n", <<>>)>>

markdown_mcq(quiz) ==
    IF ~has_dict(quiz, "mcq") THEN <<>>
    ELSE LET mcq == quiz.mcq.v
             options == Get(mcq, "options", List(<<>>))
         IN  <<Write("### 1. Multiple Choice Question\n", <<>>),
               Write("{}\n\n", <<Get(mcq, "question", "N/A")>>)>>
             \o (IF options.ty = "list"
                 THEN [j \in 1..Len(options.v) |->
                            Write("{}) {}\n", <<chr(97 + (j - 1)), options.v[j]>>)]
                 ELSE <<>>)
             \o <<Write("\n**Correct Answer:** {}\n", <<Get(mcq, "correct_answer", "N/A")>>),
                  Write("**Explanation:** {}\n\n", <<Get(mcq, "explanation", "N/A")>>)>>

markdown_true_false(quiz) ==
    IF ~has_dict(quiz, "true_false") THEN <<>>
    ELSE LET tf == quiz.true_false.v
         IN  <<Write("### 2. True/False Question\n", <<>>),
               Write("{}\n\n", <<Get(tf, "question", "N/A")>>),
               Write("**Correct Answer:** {}\n", <<Get(tf, "correct_answer", "N/A")>>),
               Write("**Explanation:** {}\n\n", <<Get(tf, "explanation", "N/A")>>)>>

markdown_matching(quiz) ==
    IF ~has_dict(quiz, "matching") THEN <<>>
    ELSE LET matching == quiz.matching.v
             pairs == Get(matching, "pairs", List(<<>>))
             shown == IF pairs.ty = "list"
                      THEN SelectSeq(pairs.v, LAMBDA pair : pair.ty = "dict")
                      ELSE <<>>
         IN  <<Write("### 3. Matching Question\n", <<>>),
               Write("{}\n\n", <<Get(matching, "question", "N/A")>>)>>
             \o [j \in 1..Len(shown) |->
                    Write("- {} -> {}\n", <<Get(shown[j].v, "term", "N/A"),
                                            Get(shown[j].v, "definition", "N/A")>>)]
             \o <<Write("\n**Explanation:** {}\n\n", <<Get(matching, "explanation", "N/A")>>)>>

markdown_fill_blank(quiz) ==
    IF ~has_dict(quiz, "fill_blank") THEN <<>>
    ELSE LET fill == quiz.fill_blank.v
         IN  <<Write("### 4. Fill in the Blank\n", <<>>),
               Write("{}\n\n", <<Get(fill, "question", "N/A")>>),
               Write("**Correct Answer:** {}\n", <<Get(fill, "correct_answer", "N/A")>>),
               Write("**Explanation:** {}\n\n", <<Get(fill, "explanation", "N/A")>>)>>

\* The writes of one iteration of the loop, for entry quiz at 0-based i.
markdown_quiz(i, quiz) ==
    IF ~Truthy(quiz) \/ ~IsDict(quiz) THEN markdown_invalid(i)
    ELSE <<Write("## Quiz {}\n\n", <<i + 1>>),
           Write("**Topic:** {}\n", <<Get(quiz.v, "topic", "N/A")>>),
           Write("**Difficulty:** {}\n\n", <<Get(quiz.v, "difficulty", "N/A")>>)>>
         \o markdown_mcq(quiz.v)
         \o markdown_true_false(quiz.v)
         \o markdown_matching(quiz.v)
         \o markdown_fill_blank(quiz.v)
         \o <<Write("---\n\n", <<>>)>>

markdown_writes(entries) ==
    <<Write("# Generated Quiz\n\n", <<>>)>>
    \o Flatten([j \in 1..Len(entries) |-> markdown_quiz(j - 1, entries[j])])

\* What export_quiz_to_markdown returns and the file system it leaves.
export_quiz_to_markdown(fsys, entries, filename, fault) ==
    LET written == write_file(fsys, filename, markdown_writes(entries), fault)
    IN  [fs |-> written.fs, result |-> ~written.raised]

(***************************************************************************)
(* generate_quiz_summary.  The clock shows an instant 0..MaxTick.          *)
(***************************************************************************)
Ticks == 0..MaxTick

\* datetime.now().isoformat()
isoformat(now) == "2024-01-01T00:00:0" \o str(now)

\* datetime.now().strftime("%Y%m%d_%H%M%S")
strftime(now) == "20240101_00000" \o str(now)

\* Mutant: the count is set to 1 and not added to.
tally_reset(counts, key) == SetItem(counts, key, 1)

\* counts[key] = counts.get(key, 0) + 1
tally(counts, key) == SetItem(counts, key, Get(counts, key, 0) + 1)

\* The loop over the four question types, for one quiz.
RECURSIVE tally_types(_, _, _)
tally_types(counts, quiz, types) ==
    IF types = <<>> THEN counts
    ELSE tally_types(IF Head(types) \in DOMAIN quiz
                     THEN tally(counts, Head(types))
                     ELSE counts,
                     quiz, Tail(types))

\* The loop over the quizzes: an entry that is no dict has no get.
RECURSIVE summary_loop(_, _)
summary_loop(summary, records) ==
    IF records = <<>> THEN Return(summary)
    ELSE LET quiz == Head(records)
         IN  IF quiz.ty # "dict" THEN Raise("AttributeError")
             ELSE summary_loop(
                    [summary EXCEPT
                        !.topics = tally(@, Get(quiz.v, "topic", "Unknown")),
                        !.difficulties = tally(@, Get(quiz.v, "difficulty", "Unknown")),
                        !.question_types = tally_types(@, quiz.v, question_types)],
                    Tail(records))

\* The outcome of generate_quiz_summary(records) at instant now.
generate_quiz_summary(records, now) ==
    summary_loop([total_quizzes |-> Len(records),
                  topics |-> EmptyDict,
                  difficulties |-> EmptyDict,
                  question_types |-> EmptyDict,
                  generation_timestamp |-> isoformat(now)],
                 records)

(***************************************************************************)
(* create_quiz_package.                                                    *)
(***************************************************************************)
MakeFaults == {"none", "fail"}

\* os.path.join(directory, name)
path_join(directory, name) == directory \o "/" \o name

\* What create_quiz_package returns or raises and the file system it leaves,
\* under the faults met, the clock showing now and then later.
create_quiz_package(fsys, records, output_dir, faults, now, later) ==
    IF faults.makedirs = "fail" THEN [fs |-> fsys, result |-> Raise("OSError")]
    ELSE LET made == [fsys EXCEPT !.dirs = @ \cup {output_dir}]
             timestamp == strftime(now)
             json_export == export_quiz_to_json(made, records,
                                path_join(output_dir, "generated_quiz_" \o timestamp \o ".json"),
                                faults.json)
             md_export == export_quiz_to_markdown(json_export.fs, records,
                                path_join(output_dir, "generated_quiz_" \o timestamp \o ".md"),
                                faults.markdown)
             summary == generate_quiz_summary(records, later)
         IN  IF summary.raised THEN [fs |-> md_export.fs, result |-> summary]
             ELSE LET written == write_file(md_export.fs,
                                    path_join(output_dir, "quiz_summary_" \o timestamp \o ".json"),
                                    summary.value, faults.summary)
                  IN  [fs |-> written.fs,
                       result |-> IF written.raised THEN Raise("OSError")
                                  ELSE Return(output_dir)]

(***************************************************************************)
(* The calls of the exports, the summary and the package, each on the list *)
(* exp_quizzes.                                                            *)
(***************************************************************************)
export_quiz_to_json_call ==
    /\ pc = "export"
    /\ \E fault \in IOFaults :
        LET done == export_quiz_to_json(fs, exp_quizzes, "quiz_export.json", fault)
        IN  /\ fs' = done.fs
            /\ exp_result' = Return(done.result)
    /\ pc' = "exported_json"
    /\ UNCHANGED <<exp_quizzes, batch_vars, validate_vars, score_vars, app_vars>>

export_quiz_to_markdown_call ==
    /\ pc = "export"
    /\ \E fault \in IOFaults :
        LET done == export_quiz_to_markdown(fs, exp_quizzes, "quiz_export.md", fault)
        IN  /\ fs' = done.fs
            /\ exp_result' = Return(done.result)
    /\ pc' = "exported_markdown"
    /\ UNCHANGED <<exp_quizzes, batch_vars, validate_vars, score_vars, app_vars>>

generate_quiz_summary_call ==
    /\ pc = "export"
    /\ \E now \in Ticks : exp_result' = generate_quiz_summary(exp_quizzes, now)
    /\ pc' = "summarized"
    /\ UNCHANGED <<exp_quizzes, fs, batch_vars, validate_vars, score_vars, app_vars>>

PackageFaults ==
    [makedirs : MakeFaults, json : IOFaults, markdown : IOFaults, summary : IOFaults]

create_quiz_package_call ==
    /\ pc = "export"
    /\ \E faults \in PackageFaults, now \in Ticks, later \in Ticks :
        /\ now <= later
        /\ LET done == create_quiz_package(fs, exp_quizzes, "quiz_exports",
                                           faults, now, later)
           IN  /\ fs' = done.fs
               /\ exp_result' = done.result
    /\ pc' = "packaged"
    /\ UNCHANGED <<exp_quizzes, batch_vars, validate_vars, score_vars, app_vars>>

(***************************************************************************)
(* The lists the exports and the summary are applied to: records with and  *)
(* without topic and difficulty, with variants that are objects or not,    *)
(* the placeholder of a failed chunk, and entries that are no object.      *)
(***************************************************************************)
FullMatching ==
    Dict([question |-> "Q", pairs |-> List(<<Pair("A", "1"), None, Pair("B", "2")>>),
          explanation |-> "E"])

VariantSets ==
    {[mcq |-> FullMcq],
     [mcq |-> None, true_false |-> FullTrueFalse],
     [matching |-> FullMatching, fill_blank |-> FullFillBlank],
     [mcq |-> FullMcq, true_false |-> FullTrueFalse,
      matching |-> FullMatching, fill_blank |-> FullFillBlank]}

ExportRecords ==
    {Merge(Merge(t, d), [mcq |-> FullMcq]) :
        t \in Optional("topic", {"GMP", "Unknown"}),
        d \in Optional("difficulty", {"Expert"})}
    \cup {Merge([topic |-> "GMP", difficulty |-> "Expert"], v) : v \in VariantSets}
    \cup {failed_quiz(0, Text(1), "General", "Intermediate")}

NonObjects == {None, List(<<"mcq">>)}

EntryPool == NonObjects \cup {Dict(EmptyDict)} \cup {Dict(r) : r \in ExportRecords}

InitExport ==
    /\ pc = "export"
    /\ exp_quizzes \in SeqsUpTo(EntryPool, MaxRecords)
    /\ fs = EmptyFs
    /\ exp_result = Return(None)
    /\ BatchUnused
    /\ ValidateIdle
    /\ ScoreIdle
    /\ AppInit

NextExport ==
    \/ export_quiz_to_json_call
    \/ export_quiz_to_markdown_call
    \/ generate_quiz_summary_call
    \/ create_quiz_package_call

SpecExport == InitExport /\ [][NextExport]_vars

(***************************************************************************)
(* Properties of the exports, the package and the summary, checked under   *)
(* SpecExport.                                                             *)
(***************************************************************************)
InvalidHeading == "## Quiz {} - Invalid Quiz\n\n"

QuizHeading == "## Quiz {}\n\n"

\* The section headings among the writes of a report, in order.
Headings(writes) ==
    SelectSeq(writes, LAMBDA w : w.text \in {QuizHeading, InvalidHeading})

\* The horizontal rules that close the sections of a report.
Rules(writes) == SelectSeq(writes, LAMBDA w : w.text = "---\n\n")

WellFormedRecord == Dict([topic |-> "GMP", difficulty |-> "Expert", mcq |-> FullMcq])

\* C14: a successful export_quiz_to_markdown leaves a report with one
\* numbered section per entry, in input order and numbered by position from
\* 1, an entry that is no object (or an empty one) being an "Invalid Quiz"
\* section; no entry makes the export fail; a well-formed record followed by
\* an entry that is no object gives two sections, the second "Invalid
\* Quiz".  A successful export_quiz_to_json leaves an array as long as the
\* list, element j being the JSON value of entry j.
C14_ExportKeepsEveryEntry ==
    /\ pc = "exported_markdown" /\ exp_result.value =>
        LET file == fs.files["quiz_export.md"]
            headings == Headings(file.content)
        IN  /\ file.complete
            /\ Len(headings) = Len(exp_quizzes)
            /\ Len(Rules(file.content)) = Len(exp_quizzes)
            /\ \A j \in 1..Len(headings) :
                /\ headings[j].args = <<j>>
                /\ (headings[j].text = InvalidHeading)
                        = (exp_quizzes[j].ty # "dict" \/ exp_quizzes[j] = Dict(EmptyDict))
            /\ (Len(exp_quizzes) = 2 /\ exp_quizzes[1] = WellFormedRecord
                    /\ exp_quizzes[2].ty # "dict") =>
                    headings = <<Write(QuizHeading, <<1>>), Write(InvalidHeading, <<2>>)>>
    /\ pc = "export" =>
        /\ export_quiz_to_markdown(fs, exp_quizzes, "quiz_export.md", "none").result
        /\ export_quiz_to_json(fs, exp_quizzes, "quiz_export.json", "none").result
    /\ pc = "exported_json" /\ exp_result.value =>
        LET file == fs.files["quiz_export.json"]
        IN  /\ file.complete
            /\ file.content.json = "array"
            /\ Len(file.content.items) = Len(exp_quizzes)
            /\ \A j \in 1..Len(exp_quizzes) :
                LET item == file.content.items[j]
                    entry == exp_quizzes[j]
                IN  CASE entry.ty = "dict" ->
                            item.json = "object" /\ item.members = entry.v
                      [] entry.ty = "list" ->
                            item.json = "array" /\ item.items = entry.v
                      [] OTHER -> item.json = "null"

\* C14 witness: the report of a well-formed record followed by None.
C14_Witness ==
    /\ pc = "exported_markdown"
    /\ exp_result.value
    /\ Len(exp_quizzes) = 2
    /\ exp_quizzes[1] = WellFormedRecord
    /\ exp_quizzes[2] = None
    /\ Len(Headings(fs.files["quiz_export.md"].content)) = 2

\* C15: once create_quiz_package has made the output directory, no failure
\* to write one of the three artifacts is raised to the caller: the call
\* returns the directory path.  The call raises only when the directory
\* could not be made, whatever the list holds.
C15_PackageRaisesOnlyWithoutDirectory ==
    pc = "packaged" =>
        /\ "quiz_exports" \in fs.dirs =>
                ~exp_result.raised /\ exp_result.value = "quiz_exports"
        /\ exp_result.raised => "quiz_exports" \notin fs.dirs

\* The sum of the counts of a histogram.
RECURSIVE Total(_)
Total(counts) ==
    IF DOMAIN counts = {} THEN 0
    ELSE LET key == CHOOSE k \in DOMAIN counts : TRUE
         IN  counts[key] + Total([k \in DOMAIN counts \ {key} |-> counts[k]])

\* The number of records of exp_quizzes whose field is value, "Unknown"
\* standing for a record without the field.
RecordsWith(field, value) ==
    Cardinality({j \in 1..Len(exp_quizzes) :
        Get(exp_quizzes[j].v, field, "Unknown") = value})

RecordsHolding(kind) ==
    Cardinality({j \in 1..Len(exp_quizzes) : kind \in DOMAIN exp_quizzes[j].v})

Summarized == pc = "summarized" /\ ~exp_result.raised

\* C16: generate_quiz_summary returns total_quizzes = the number of
\* records; the counts of topics sum to it and so do those of difficulties,
\* a record without the field counting under "Unknown" and an error-tagged
\* record like any other; question_types[k] is the number of records that
\* hold kind k, and a kind no record holds has no entry.
C16_SummaryHistograms ==
    Summarized =>
        LET summary == exp_result.value
        IN  /\ summary.total_quizzes = Len(exp_quizzes)
            /\ Total(summary.topics) = summary.total_quizzes
            /\ Total(summary.difficulties) = summary.total_quizzes
            /\ \A key \in DOMAIN summary.topics :
                    summary.topics[key] = RecordsWith("topic", key)
            /\ \A key \in DOMAIN summary.difficulties :
                    summary.difficulties[key] = RecordsWith("difficulty", key)
            /\ \A kind \in VariantKeys :
                    IF RecordsHolding(kind) = 0
                    THEN kind \notin DOMAIN summary.question_types
                    ELSE /\ kind \in DOMAIN summary.question_types
                         /\ summary.question_types[kind] = RecordsHolding(kind)

\* C16 witness: a record that has no topic followed by the placeholder of a
\* failed chunk.
C16_Witness ==
    /\ Summarized
    /\ Len(exp_quizzes) = 2
    /\ "topic" \notin DOMAIN exp_quizzes[1].v
    /\ IsErrorEntry(exp_quizzes[2].v)
    /\ exp_result.value.topics = [Unknown |-> 1, General |-> 1]
    /\ exp_result.value.question_types = [mcq |-> 1]

(***************************************************************************)
(* The operations applied to a batch once generate_quiz_batch has returned *)
(* it.  Each takes records of the list quizzes itself (Python passes the   *)
(* objects, not copies) and the answers dict.                              *)
(***************************************************************************)
AllReplyTexts == ReplyTexts \cup {ReplyFullQuiz, ReplyNullVariant}

AllServiceOutcomes ==
    {[kind |-> "raise", content |-> Str("Connection error.")]}
    \cup {[kind |-> "response", content |-> Str(t)] : t \in AllReplyTexts}

\* The lists generate_quiz_batch returns for up to MaxChunks short chunks.
ReturnedBatches ==
    UNION {{generate_quiz_batch(chunks, None, None, outs).value :
                outs \in [1..Len(chunks) -> AllServiceOutcomes]} :
           chunks \in SeqsUpTo({Text(1)}, MaxChunks)}

RightAnswers ==
    [mcq |-> Str(<<"B">>), true_false |-> Str(<<"t", "r", "u", "e">>),
     matching |-> [A |-> "1", B |-> "2"], fill_blank |-> Str(<<" ", "B", " ">>)]

\* quizzes as a list of tagged values
AsEntries(records) == [k \in 1..Len(records) |-> Dict(records[k])]

\* Mutant: the verdict is also stored on the record, quiz_data["is_valid"].
validate_record_marks_record ==
    /\ pc = "returned"
    /\ \E k \in 1..Len(quizzes) :
        LET result == validate_quiz_structure(quizzes[k])
        IN  /\ validation_result' = result
            /\ quizzes' = IF result.raised THEN quizzes
                          ELSE [quizzes EXCEPT
                                    ![k] = SetItem(@, "is_valid", result.value.is_valid)]
    /\ UNCHANGED <<arg_chunks, arg_topics, arg_difficulties, topics, difficulties,
                   loop_i, calls, outcomes, returned>>
    /\ UNCHANGED <<pc, val_quiz_data, score_vars, export_vars, app_vars>>

validate_record ==
    /\ pc = "returned"
    /\ \E k \in 1..Len(quizzes) :
        validation_result' = validate_quiz_structure(quizzes[k])
    /\ UNCHANGED <<batch_vars, pc, val_quiz_data, score_vars, export_vars, app_vars>>

score_record ==
    /\ pc = "returned"
    /\ \E k \in 1..Len(quizzes) :
        score_result' = calculate_quiz_score(answers, quizzes[k])
    /\ UNCHANGED <<batch_vars, pc, validate_vars, answers, quiz_data, export_vars, app_vars>>

summarize_batch ==
    /\ pc = "returned"
    /\ \E now \in Ticks :
        exp_result' = generate_quiz_summary(AsEntries(quizzes), now)
    /\ UNCHANGED <<batch_vars, pc, validate_vars, score_vars, exp_quizzes, fs, app_vars>>

export_batch_json ==
    /\ pc = "returned"
    /\ \E fault \in IOFaults :
        LET done == export_quiz_to_json(fs, AsEntries(quizzes), "quiz_export.json", fault)
        IN  /\ fs' = done.fs
            /\ exp_result' = Return(done.result)
    /\ UNCHANGED <<batch_vars, pc, validate_vars, score_vars, exp_quizzes, app_vars>>

export_batch_markdown ==
    /\ pc = "returned"
    /\ \E fault \in IOFaults :
        LET done == export_quiz_to_markdown(fs, AsEntries(quizzes), "quiz_export.md", fault)
        IN  /\ fs' = done.fs
            /\ exp_result' = Return(done.result)
    /\ UNCHANGED <<batch_vars, pc, validate_vars, score_vars, exp_quizzes, app_vars>>

InitPipeline ==
    /\ pc = "returned"
    /\ quizzes \in ReturnedBatches
    /\ arg_chunks = [k \in 1..Len(quizzes) |-> Text(1)]
    /\ arg_topics = None
    /\ arg_difficulties = None
    /\ topics = [k \in 1..Len(quizzes) |-> "General"]
    /\ difficulties = [k \in 1..Len(quizzes) |-> "Intermediate"]
    /\ loop_i = Len(quizzes)
    /\ calls = <<>>
    /\ outcomes = <<>>
    /\ returned = <<>>
    /\ answers \in {EmptyDict, RightAnswers}
    /\ quiz_data = EmptyDict
    /\ score_result = Return(None)
    /\ ValidateIdle
    /\ ExportIdle
    /\ AppInit

NextPipeline ==
    \/ validate_record
    \/ score_record
    \/ summarize_batch
    \/ export_batch_json
    \/ export_batch_markdown

SpecPipeline == InitPipeline /\ [][NextPipeline]_vars

MaxCalls == 4

Bool(b) == [ty |-> "bool", v |-> b]

\* The documents on disk: whether the path exists, its extension, and the
\* text its reader returns ("" when the reader fails).
Documents ==
    [a_md |-> [exists |-> TRUE, extension |-> ".md", text |-> Text(1)],
     b_md |-> [exists |-> TRUE, extension |-> ".MD", text |-> Text(2)],
     scan_pdf |-> [exists |-> TRUE, extension |-> ".pdf", text |-> <<>>],
     notes_txt |-> [exists |-> TRUE, extension |-> ".txt", text |-> Text(1)],
     gone_docx |-> [exists |-> FALSE, extension |-> ".docx", text |-> <<>>]]

Paths == DOMAIN Documents

\* os.path.splitext(file_path)[1].lower()
file_extension(file_path) ==
    CASE Documents[file_path].extension \in {".md", ".MD"} -> ".md"
      [] Documents[file_path].extension \in {".pdf", ".PDF"} -> ".pdf"
      [] Documents[file_path].extension \in {".docx", ".DOCX"} -> ".docx"
      [] OTHER -> Documents[file_path].extension

extract_text_from_file(file_path) ==
    IF ~Documents[file_path].exists THEN Raise("FileNotFoundError")
    ELSE IF file_extension(file_path) \in {".pdf", ".docx", ".md", ".markdown"}
    THEN Return(Documents[file_path].text)
    ELSE Raise("ValueError")

\* chunk_size: a size is represented by the number of pieces it cuts the
\* texts of Documents into.
ChunkSizes == 1..MaxChunks

\* chunk_text(text, chunk_size, chunk_overlap): the splitter is a library
\* call and a function of its arguments; the list it returns has the pieces
\* chunk_size makes, a piece of these short texts being the text.
chunk_text(text, chunk_size) == [k \in 1..chunk_size |-> text]

process_document ==
    /\ n_calls < MaxCalls
    /\ n_calls' = n_calls + 1
    /\ \E file_path \in Paths, chunk_size \in ChunkSizes :
        LET text == extract_text_from_file(file_path)
        IN  IF text.raised
            THEN /\ app_result' = Bool(FALSE)
                 /\ UNCHANGED <<self_chunks, self_current_file>>
            ELSE IF text.value = <<>>
            THEN /\ app_result' = Bool(FALSE)
                 /\ UNCHANGED <<self_chunks, self_current_file>>
            ELSE /\ self_chunks' = chunk_text(text.value, chunk_size)
                 /\ self_current_file' = file_path
                 /\ app_result' = Bool(TRUE)
    /\ UNCHANGED <<self_quizzes, batch_vars, pc, validate_vars, score_vars, export_vars>>

\* max_chunks: 0 stands for the values that are not truthy, None and 0.
MaxChunksArgs == 0..MaxChunks

\* self.chunks[:max_chunks]
slice_to(chunks, max_chunks) ==
    SubSeq(chunks, 1, IF max_chunks < Len(chunks) THEN max_chunks ELSE Len(chunks))

\* The validation loop of generate_quizzes over the batch: the list of the
\* valid records, or the exception of the first record whose validation raises.
valid_quizzes(batch) ==
    IF \E k \in 1..Len(batch) : validate_quiz_structure(batch[k]).raised
    THEN validate_quiz_structure(
            batch[CHOOSE k \in 1..Len(batch) :
                    /\ validate_quiz_structure(batch[k]).raised
                    /\ \A n \in 1..(k - 1) : ~validate_quiz_structure(batch[n]).raised])
    ELSE Return(SelectSeq(batch,
                    LAMBDA quiz : validate_quiz_structure(quiz).value.is_valid))

generate_quizzes ==
    /\ n_calls < MaxCalls
    /\ n_calls' = n_calls + 1
    /\ IF self_chunks = <<>>
       THEN /\ app_result' = Bool(FALSE)
            /\ UNCHANGED self_quizzes
       ELSE \E max_chunks \in MaxChunksArgs, topics_arg \in {None, List(<<"GMP">>)} :
            LET chunks_to_process == IF max_chunks # 0
                                     THEN slice_to(self_chunks, max_chunks)
                                     ELSE self_chunks
            IN  \E outs \in [1..Len(chunks_to_process) -> AllServiceOutcomes] :
                LET batch == generate_quiz_batch(chunks_to_process, topics_arg, None, outs)
                IN  IF batch.raised
                    THEN /\ app_result' = Bool(FALSE)
                         /\ UNCHANGED self_quizzes
                    ELSE LET valid == valid_quizzes(batch.value)
                         IN  IF valid.raised
                             THEN /\ self_quizzes' = batch.value
                                  /\ app_result' = Bool(FALSE)
                             ELSE /\ self_quizzes' = valid.value
                                  /\ app_result' = Bool(TRUE)
    /\ UNCHANGED <<self_chunks, self_current_file>>
    /\ UNCHANGED <<batch_vars, pc, validate_vars, score_vars, export_vars>>

\* The values of output_format
OutputFormats ==
    {Str(<<"j", "s", "o", "n">>), Str(<<"J", "s", "o", "n">>),
     Str(<<"m", "a", "r", "k", "d", "o", "w", "n">>),
     Str(<<"p", "a", "c", "k", "a", "g", "e">>), Str(<<"p", "d", "f">>)}

\* The faults one call of export_quizzes meets: none, or one of them.
ExportFaults ==
    {faults \in PackageFaults :
        Cardinality({key \in DOMAIN faults : faults[key] \notin {"none"}}) <= 1}

export_quizzes ==
    /\ n_calls < MaxCalls
    /\ n_calls' = n_calls + 1
    /\ IF self_quizzes = <<>>
       THEN /\ app_result' = Bool(FALSE)
            /\ UNCHANGED fs
       ELSE \E output_format \in OutputFormats, faults \in ExportFaults, now \in Ticks :
            LET output_dir == "quiz_exports"
                format == lower(output_format).value.v
            IN  CASE format = <<"j", "s", "o", "n">> ->
                        LET done == export_quiz_to_json(fs, AsEntries(self_quizzes),
                                        path_join(output_dir, "generated_quizzes.json"),
                                        faults.json)
                        IN  /\ fs' = done.fs
                            /\ app_result' = IF done.result THEN Bool(TRUE) ELSE None
                  [] format = <<"m", "a", "r", "k", "d", "o", "w", "n">> ->
                        LET done == export_quiz_to_markdown(fs, AsEntries(self_quizzes),
                                        path_join(output_dir, "generated_quizzes.md"),
                                        faults.markdown)
                        IN  /\ fs' = done.fs
                            /\ app_result' = IF done.result THEN Bool(TRUE) ELSE None
                  [] format = <<"p", "a", "c", "k", "a", "g", "e">> ->
                        LET done == create_quiz_package(fs, AsEntries(self_quizzes),
                                        output_dir, faults, now, now)
                        IN  /\ fs' = done.fs
                            /\ app_result' = Bool(~done.result.raised)
                  [] OTHER ->
                        /\ app_result' = Bool(FALSE)
                        /\ UNCHANGED fs
    /\ UNCHANGED <<self_quizzes, self_chunks, self_current_file>>
    /\ UNCHANGED <<exp_quizzes, exp_result, batch_vars, pc, validate_vars, score_vars>>

\* show_summary prints the summary of self.quizzes; where the summary
\* raises, so does the call, and app_result is the exception.
show_summary ==
    /\ n_calls < MaxCalls
    /\ n_calls' = n_calls + 1
    /\ IF self_quizzes = <<>>
       THEN app_result' = None
       ELSE \E now \in Ticks :
            LET summary == generate_quiz_summary(AsEntries(self_quizzes), now)
            IN  app_result' = IF summary.raised THEN summary ELSE None
    /\ UNCHANGED <<self_quizzes, self_chunks, self_current_file>>
    /\ UNCHANGED <<batch_vars, pc, validate_vars, score_vars, export_vars>>

InitApp ==
    /\ pc = "app"
    /\ BatchUnused
    /\ ValidateIdle
    /\ ScoreIdle
    /\ ExportIdle
    /\ AppInit

NextApp ==
    \/ process_document
    \/ generate_quizzes
    \/ export_quizzes
    \/ show_summary

SpecApp == InitApp /\ [][NextApp]_vars

(***************************************************************************)
(* Claims about QuizGenerator.                                             *)
(***************************************************************************)
\* C20: after any sequence of QuizGenerator operations, whatever each call
\* returned, every record held in self.quizzes passes validate_quiz_structure
\* with is_valid = True and is not error-tagged.
C20_HeldQuizzesAreValid ==
    \A k \in 1..Len(self_quizzes) :
        /\ ~validate_quiz_structure(self_quizzes[k]).raised
        /\ validate_quiz_structure(self_quizzes[k]).value.is_valid
        /\ "error" \notin DOMAIN self_quizzes[k]

\* C21: in every reachable state of a QuizGenerator each record in
\* self.quizzes was generated from a chunk of the document self.current_file
\* names, the chunk self.chunks holds at the record's chunk_index.
C21_QuizzesComeFromCurrentFile ==
    \A k \in 1..Len(self_quizzes) :
        LET quiz == self_quizzes[k]
        IN  /\ quiz.chunk_index + 1 \in 1..Len(self_chunks)
            /\ quiz.chunk_preview = chunk_preview(self_chunks[quiz.chunk_index + 1])
            /\ quiz.chunk_preview = chunk_preview(Documents[self_current_file].text)

====
